---- MODULE Spec2Model ----
(***************************************************************************)
(* A model of the inventory application (macph/inventory): the record and  *)
(* item handlers of views.py with the forms of forms.py, the consumption   *)
(* rate query of operations.py and Item.expected_end of models.py.         *)
(*                                                                         *)
(* Representation.  A Decimal with DP_QUANTITY = 3 decimal places is the   *)
(* integer number of thousandths (1.5 is 1500).  A unit's convert factor   *)
(* is the exact fraction num/den.  A timestamp is a number of seconds.     *)
(* A rate and a number of days are exact fractions <<n, d>> in lowest      *)
(* terms.  A database table is a set of rows, each with its primary key.   *)
(***************************************************************************)
EXTENDS Integers, Sequences, FiniteSets, TLC

VARIABLES
    clock,      \* what django.utils.timezone.now() returns, in seconds
    items,      \* table inventory_item
    records,    \* table inventory_record
    last,       \* the last request or call handled and what it answered
    req         \* the record submissions in progress, one per worker

vars == <<clock, items, records, last, req>>

-----------------------------------------------------------------------------
(* Bounds of the model *)

MaxClock == 60
MaxItems == 2

TickSteps == {30, 60}

-----------------------------------------------------------------------------
(* models.py: constants, UnitEnum, Unit *)

DP_QUANTITY == 3

GENERIC == 0
LENGTH == 1
MASS == 2
VOLUME == 3

\* One second of timedelta; MIN_DOUBLE_POST = timedelta(minutes=1).
MIN_DOUBLE_POST == 60

\* 10 ** DP_QUANTITY: thousandths per whole unit.
\* Rows of table inventory_unit (the fixture units.json is data, not code):
\* pk, measure and convert = num/den in lowest terms, a decimal of at most
\* DP_CONVERT places with convert > 0.
UnitRows ==
    { [pk |-> 101, symbol |-> "in", measure |-> LENGTH, num |-> 127,  den |-> 5000],
      [pk |-> 201, symbol |-> "kg", measure |-> MASS,   num |-> 1,    den |-> 1],
      [pk |-> 202, symbol |-> "g",  measure |-> MASS,   num |-> 1,    den |-> 1000],
      [pk |-> 203, symbol |-> "mg", measure |-> MASS,   num |-> 1,    den |-> 1000000],
      [pk |-> 204, symbol |-> "t",  measure |-> MASS,   num |-> 1000, den |-> 1],
      [pk |-> 301, symbol |-> "l",  measure |-> VOLUME, num |-> 1,    den |-> 1],
      [pk |-> 302, symbol |-> "ml", measure |-> VOLUME, num |-> 1,    den |-> 1000],
      [pk |-> 303, symbol |-> "pt", measure |-> VOLUME, num |-> 71,   den |-> 125] }

UnitPks == { u.pk : u \in UnitRows }

\* Unit.objects.get(pk=pk)
Unit(pk) == CHOOSE u \in UnitRows : u.pk = pk

\* UnitsOfMeasure without the filter on the measure: every unit.
UnitsOfAnyMeasure(measure) == UnitPks

\* Unit.objects.filter(measure=measure)
UnitsOfMeasure(measure) == { u.pk : u \in { x \in UnitRows : x.measure = measure } }

\* Unit.convert as the exact fraction <<num, den>>
Convert(pk) == <<Unit(pk).num, Unit(pk).den>>

-----------------------------------------------------------------------------
(* Decimal arithmetic *)

\* Decimal.quantize under ROUND_HALF_EVEN, the rounding of the default
\* decimal context: n/d to the nearest integer, a tie to the even one.
RoundHalfEven(n, d) ==
    LET fl == n \div d
        rem == n % d
    IN  IF 2 * rem < d THEN fl
        ELSE IF 2 * rem > d THEN fl + 1
        ELSE IF fl % 2 = 0 THEN fl ELSE fl + 1

\* Decimal.quantize under ROUND_HALF_UP: a tie goes away from zero.
RoundHalfUp(n, d) ==
    LET a == IF n < 0 THEN -n ELSE n
        r == IF 2 * (a % d) >= d THEN (a \div d) + 1 ELSE a \div d
    IN  IF n < 0 THEN -r ELSE r

\* round(x, DP_QUANTITY) cutting the digits off instead of rounding.
Truncate(n, d) == n \div d

\* round(x, DP_QUANTITY) of forms.py and views.py, x = n/d thousandths.  No
\* localcontext is entered there, so the context is the default one.
Round(n, d) == RoundHalfEven(n, d)

\* round(quantity * unit.convert, DP_QUANTITY): a quantity entered in unit
\* pk, as thousandths of the base unit.
ToBase(quantity, pk) == Round(quantity * Convert(pk)[1], Convert(pk)[2])

-----------------------------------------------------------------------------
(* Form fields *)

\* What a POST field holds: <<>> when it is absent or empty, <<v>> for the
\* decimal v, given in thousandths.
Blank == <<>>

Num(v) == <<v>>

\* A decimal field without min_value
DecimalFieldAnyValue(field, required) ==
    IF field = Blank THEN ~required ELSE TRUE

\* decimal_field(required=...): CustomDecimalField with min_value=0.
DecimalFieldValid(field, required) ==
    IF field = Blank THEN ~required ELSE field[1] >= 0

-----------------------------------------------------------------------------
(* Names and slugs *)

\* A name is a sequence of characters.
Lower(c) == CASE c = "R" -> "r" [] c = "A" -> "a" [] OTHER -> c

LowerAll(name) == [k \in 1..Len(name) |-> Lower(name[k])]

\* re.sub(r"[-\s]+", "-", value): a run of spaces or hyphens becomes one
\* hyphen.
RECURSIVE CollapseRuns(_)
CollapseRuns(name) ==
    IF name = <<>> THEN <<>>
    ELSE IF Head(name) \in {" ", "-"}
         THEN IF Len(name) > 1 /\ name[2] \in {" ", "-"}
              THEN CollapseRuns(Tail(name))
              ELSE <<"-">> \o CollapseRuns(Tail(name))
         ELSE <<Head(name)>> \o CollapseRuns(Tail(name))

\* str.strip(): the leading and trailing spaces removed.
RECURSIVE StripLeft(_)
StripLeft(name) ==
    IF name # <<>> /\ Head(name) = " " THEN StripLeft(Tail(name)) ELSE name

RECURSIVE StripRight(_)
StripRight(name) ==
    IF name # <<>> /\ name[Len(name)] = " "
    THEN StripRight(SubSeq(name, 1, Len(name) - 1))
    ELSE name

\* django.utils.text.slugify on names of letters, spaces and hyphens:
\* lower case, stripped, runs of spaces and hyphens collapsed.
Slugify(name) == CollapseRuns(StripRight(StripLeft(LowerAll(name))))

NameRice == <<"r", "i", "c", "e">>
NameRiceCapital == <<"R", "i", "c", "e">>
NameAle == <<"a", "l", "e">>
NameLemonade == <<"l", "e", "m", "o", "n", "a", "d", "e">>

-----------------------------------------------------------------------------
(* Tables *)

Users == {"john", "jane"}

\* No row: the None of a query that found nothing.
NoRecord == [id |-> 0, item |-> 0, quantity |-> 0, added |-> 0, note |-> ""]

\* The primary key the database gives the next row of a table (rows are
\* never deleted in this model).
NextId(table) == Cardinality(table) + 1

\* Item.objects.get(id=id)
Item(id) == CHOOSE i \in items : i.id = id

\* Record.objects.filter(item=item) on the table recs
RecordsOf(recs, item) == { r \in recs : r.item = item }

\* Record.objects.filter(item=item).order_by("added").last(), and the row
\* Item.with_latest_record() prefetches: a row with the greatest added, or
\* None.  Rows that tie on added come in an order the database chooses.
LatestRecords(recs, item) ==
    IF RecordsOf(recs, item) = {} THEN {NoRecord}
    ELSE { r \in RecordsOf(recs, item) :
             \A s \in RecordsOf(recs, item) : s.added <= r.added }

\* IsDoublePost with the comparison <= in place of <.
IsDoublePostInclusive(latest, added) ==
    latest # NoRecord /\ added - latest.added <= MIN_DOUBLE_POST

\* latest_record and added - latest_record.added < MIN_DOUBLE_POST
\* A window of no length: only a submission of the same instant is merged
IsDoublePostSameInstant(latest, added) ==
    latest # NoRecord /\ added = latest.added

IsDoublePost(latest, added) ==
    latest # NoRecord /\ added - latest.added < MIN_DOUBLE_POST

-----------------------------------------------------------------------------
(* What the requests carry *)

QuantityInputs == {Blank, Num(500), Num(-1000)}

NoteInputs == {"n"}

\* The units the requests name: kg, g and l, and 0, a pk that names no unit.
UnitInputs == {201, 202, 301, 0}

ItemIds == 1..MaxItems

NameInputs == {NameRice, NameRiceCapital, NameAle}

\* The answer to a request that has not been made.
NoRequest ==
    [op |-> "none", user |-> "", item |-> 0, unit |-> 0, outcome |-> "",
     merged |-> {}, inserted |-> {}]

-----------------------------------------------------------------------------
(* forms.py: AddRecordForm;  views.py: AddRecord *)

\* AddRecordForm.is_valid(): the fields with an error.  The unit field is a
\* ModelChoiceField over Unit.objects.filter(measure=item.unit.measure);
\* clean() returns early when quantity is not in cleaned_data.
AddRecordFormErrors(item, quantity, unit) ==
    LET quantityOk == DecimalFieldValid(quantity, TRUE)
        unitOk == unit \in UnitsOfMeasure(Unit(item.unit).measure)
    IN  (IF quantityOk THEN {} ELSE {"quantity"})
        \cup (IF unitOk THEN {} ELSE {"unit"})
        \cup (IF quantityOk /\ ( ~unitOk
                                 \/ Unit(item.unit).measure # Unit(unit).measure )
              THEN {"__all__"} ELSE {})

\* AddRecordForm.save(): added = now(); the latest record is modified when
\* it is a double post, otherwise a new record is created (Record.save sets
\* its added to now()).  quantity is cleaned_data["quantity"].
\* A merge that takes the note of the submission too
AddRecordFormSaveWithNote(recs, item, quantity, note, added, latest) ==
    IF IsDoublePost(latest, added)
    THEN (recs \ {latest})
         \cup {[latest EXCEPT !.added = added, !.quantity = quantity,
                              !.note = note]}
    ELSE recs \cup {[id |-> NextId(recs), item |-> item.id,
                     quantity |-> quantity, added |-> added, note |-> note]}

AddRecordFormSave(recs, item, quantity, note, added, latest) ==
    IF IsDoublePost(latest, added)
    THEN (recs \ {latest})
         \cup {[latest EXCEPT !.added = added, !.quantity = quantity]}
    ELSE recs \cup {[id |-> NextId(recs), item |-> item.id,
                     quantity |-> quantity, added |-> added, note |-> note]}

\* A save that writes the unit to every row of the owner
ItemSaveEveryRow(table, item) ==
    { IF i.user = item.user THEN [i EXCEPT !.unit = item.unit] ELSE i :
        i \in { r \in table : r.id # item.id } }
    \cup {[item EXCEPT !.ident = Slugify(item.name)]}

\* Item.save(): ident = slugify(name), then the row is written.
ItemSave(table, item) ==
    { i \in table : i.id # item.id }
    \cup {[item EXCEPT !.ident = Slugify(item.name)]}

\* AddRecord.post
AddRecord(user, id, quantity, unit, note) ==
    /\ \E item \in items : item.id = id /\ item.user = user
    /\ LET item == Item(id)
       IN  IF AddRecordFormErrors(item, quantity, unit) = {}
           THEN \E latest \in LatestRecords(records, id) :
                  /\ records' = AddRecordFormSave(records, item,
                                    ToBase(quantity[1], unit), note, clock, latest)
                  /\ items' = ItemSave(items, item)
                  /\ last' = [op |-> "AddRecord", user |-> user, item |-> id, unit |-> unit,
                              outcome |-> "saved",
                              merged |-> IF IsDoublePost(latest, clock)
                                         THEN {id} ELSE {},
                              inserted |-> IF IsDoublePost(latest, clock)
                                           THEN {} ELSE {id}]
           ELSE /\ UNCHANGED <<items, records>>
                /\ last' = [op |-> "AddRecord", user |-> user, item |-> id, unit |-> unit,
                            outcome |-> "invalid", merged |-> {}, inserted |-> {}]
    /\ UNCHANGED <<clock, req>>

-----------------------------------------------------------------------------
(* forms.py: generate_update_form;  views.py: Update *)

\* Item.with_latest_record().filter(user=user)
ItemsOf(user) == { i \in items : i.user = user }

\* What an update request of the user posts: a value for each field name
\* "item-<ident>".  Key k is the field of the item with id k; key 0 is a
\* field name that belongs to no item ("item-not-exists").
UpdateData(user) == [{0} \cup { i.id : i \in ItemsOf(user) } -> QuantityInputs]

\* UpdateFormErrors looking at the first item only.
UpdateFormErrorsFirstOnly(userItems, data) ==
    { i.id : i \in { x \in userItems :
                       /\ \A y \in userItems : x.id <= y.id
                       /\ ~DecimalFieldValid(data[x.id], FALSE) } }

\* UpdateForm.errors: the items whose decimal_field(required=False) rejects
\* what was posted.
UpdateFormErrors(userItems, data) ==
    { i.id : i \in { x \in userItems : ~DecimalFieldValid(data[x.id], FALSE) } }

\* UpdateForm.clean: cleaned_data["values"], from item to the quantity in
\* base units, for the items with a valid value that is not None.
UpdateFormClean(userItems, data) ==
    LET given == { x \in userItems :
                     DecimalFieldValid(data[x.id], FALSE) /\ data[x.id] # Blank }
    IN  [id \in { i.id : i \in given } |-> ToBase(data[id][1], Item(id).unit)]

\* item.latest_record for each item of the form
LatestOfItems(recs, ids) ==
    { f \in [ids -> recs \cup {NoRecord}] :
        \A id \in ids : f[id] \in LatestRecords(recs, id) }

\* UpdateMerged deciding once for the whole batch: every item with a record
\* is updated as soon as one item of the batch is a double post.
UpdateMergedTogether(values, latestOf, added) ==
    IF \E id \in DOMAIN values : IsDoublePost(latestOf[id], added)
    THEN { id \in DOMAIN values : latestOf[id] # NoRecord }
    ELSE {}

\* UpdateForm.save, the loop: the items whose latest record is updated.
UpdateMerged(values, latestOf, added) ==
    { id \in DOMAIN values : IsDoublePost(latestOf[id], added) }

\* UpdateForm.save: ValueError when the form has errors; otherwise
\* bulk_create of the new records and bulk_update of added and quantity of
\* the updated ones.  new_records holds the items in the order of the
\* form's items; the new primary keys follow that order.
UpdateFormSave(recs, errors, values, note, added, latestOf) ==
    IF errors # {}
    THEN [raised |-> TRUE, records |-> recs]
    ELSE LET merged == UpdateMerged(values, latestOf, added)
             created == DOMAIN values \ merged
             updated_records ==
                 { [latestOf[id] EXCEPT !.added = added, !.quantity = values[id]] :
                     id \in merged }
             new_records ==
                 { [id |-> NextId(recs) + Cardinality({ j \in created : j < id }),
                    item |-> id, quantity |-> values[id], added |-> added,
                    note |-> note] : id \in created }
         IN  [raised |-> FALSE,
              records |-> (recs \ { latestOf[id] : id \in merged })
                          \cup updated_records \cup new_records]

\* Update.post: save() only if is_valid().
Update(user, data, note) ==
    LET userItems == ItemsOf(user)
        ids == { i.id : i \in userItems }
        errors == UpdateFormErrors(userItems, data)
        values == UpdateFormClean(userItems, data)
    IN  /\ IF errors = {}
           THEN \E latestOf \in LatestOfItems(records, ids) :
                  /\ records' =
                       UpdateFormSave(records, errors, values, note, clock,
                                      latestOf).records
                  /\ last' = [op |-> "Update", user |-> user, item |-> 0, unit |-> 0,
                              outcome |-> "saved",
                              merged |-> UpdateMerged(values, latestOf, clock),
                              inserted |-> DOMAIN values
                                           \ UpdateMerged(values, latestOf, clock)]
           ELSE /\ UNCHANGED records
                /\ last' = [op |-> "Update", user |-> user, item |-> 0, unit |-> 0,
                            outcome |-> "invalid", merged |-> {}, inserted |-> {}]
        /\ UNCHANGED <<clock, items, req>>

-----------------------------------------------------------------------------
(* forms.py: AddItemForm, AddInitialRecord, EditItemForm;
   views.py: AddItem, GetItem *)

\* name = name on a CITextField: equal but for case.
SameName(a, b) == LowerAll(a) = LowerAll(b)

\* The check of the name alone, without the one of the slug
NameExistsNameOnly(user, name, id) ==
    \E i \in items :
        /\ i.user = user
        /\ i.id # id
        /\ SameName(i.name, name)

\* Item.objects.filter(Q(name=name) | Q(ident=slugify(name)), user=user)
\*     .exclude(id=id).exists()        (AddItemForm excludes nothing: id 0)
NameExists(user, name, id) ==
    \E i \in items :
        /\ i.user = user
        /\ i.id # id
        /\ SameName(i.name, name) \/ i.ident = Slugify(name)

\* AddItemForm.is_valid() and AddInitialRecord.is_valid(): the fields with
\* an error.  The form is given the user of the request.
AddItemErrors(user, name, unit, minimum, quantity) ==
    (IF NameExists(user, name, 0) THEN {"name"} ELSE {})
    \cup (IF unit \in UnitPks THEN {} ELSE {"unit"})
    \cup (IF DecimalFieldValid(minimum, FALSE) THEN {} ELSE {"minimum"})
    \cup (IF DecimalFieldValid(quantity, FALSE) THEN {} ELSE {"quantity"})

\* AddItemForm.clean_minimum: cleaned_data["minimum"] or 0
CleanMinimum(minimum) == IF minimum = Blank THEN 0 ELSE minimum[1]

\* AddItem.post
AddItem(user, name, unit, minimum, quantity) ==
    /\ Cardinality(items) < MaxItems
    /\ IF AddItemErrors(user, name, unit, minimum, quantity) = {}
       THEN LET new_item == [id |-> NextId(items), user |-> user, name |-> name,
                             ident |-> Slugify(name), unit |-> unit,
                             minimum |-> CleanMinimum(minimum)]
            IN  /\ items' = ItemSave(items, new_item)
                /\ records' =
                     IF quantity = Blank THEN records
                     ELSE records \cup
                          {[id |-> NextId(records), item |-> new_item.id,
                            quantity |-> ToBase(quantity[1], unit),
                            added |-> clock, note |-> "initial"]}
                /\ last' = [op |-> "AddItem", user |-> user, item |-> new_item.id,
                            unit |-> unit,
                            outcome |-> "saved", merged |-> {},
                            inserted |-> IF quantity = Blank THEN {}
                                         ELSE {new_item.id}]
       ELSE /\ UNCHANGED <<items, records>>
            /\ last' = [op |-> "AddItem", user |-> user, item |-> 0, unit |-> unit,
                        outcome |-> "invalid", merged |-> {}, inserted |-> {}]
    /\ UNCHANGED <<clock, req>>

\* EditItemForm.is_valid(): the fields with an error.  The unit field is a
\* ModelChoiceField over Unit.objects.filter(measure=instance.unit.measure);
\* clean() raises a ValidationError when unit is not in cleaned_data.
EditItemErrors(item, name, unit, minimum) ==
    LET unitOk == unit \in UnitsOfMeasure(Unit(item.unit).measure)
    IN  (IF NameExists(item.user, name, item.id) THEN {"name"} ELSE {})
        \cup (IF unitOk THEN {} ELSE {"unit", "__all__"})
        \cup (IF DecimalFieldValid(minimum, FALSE) THEN {} ELSE {"minimum"})

\* EditItemForm.clean reads self.cleaned_data["minimum"] once the unit is
\* there: a KeyError when the minimum field was rejected.
EditItemRaises(item, unit, minimum) ==
    /\ unit \in UnitsOfMeasure(Unit(item.unit).measure)
    /\ ~DecimalFieldValid(minimum, FALSE)

\* EditItemForm.clean: round(minimum * unit.convert, DP_QUANTITY)
EditItemMinimum(unit, minimum) == ToBase(CleanMinimum(minimum), unit)

\* GetItem.post
EditItem(user, id, name, unit, minimum) ==
    /\ \E item \in items : item.id = id /\ item.user = user
    /\ LET item == Item(id)
       IN  IF EditItemRaises(item, unit, minimum)
           THEN /\ UNCHANGED <<items, records>>
                /\ last' = [op |-> "EditItem", user |-> user, item |-> id, unit |-> unit,
                            outcome |-> "error", merged |-> {}, inserted |-> {}]
           ELSE IF EditItemErrors(item, name, unit, minimum) = {}
           THEN /\ items' = ItemSave(items,
                                [item EXCEPT !.name = name, !.unit = unit,
                                    !.minimum = EditItemMinimum(unit, minimum)])
                /\ UNCHANGED records
                /\ last' = [op |-> "EditItem", user |-> user, item |-> id, unit |-> unit,
                            outcome |-> "saved", merged |-> {}, inserted |-> {}]
           ELSE /\ UNCHANGED <<items, records>>
                /\ last' = [op |-> "EditItem", user |-> user, item |-> id, unit |-> unit,
                            outcome |-> "invalid", merged |-> {}, inserted |-> {}]
    /\ UNCHANGED <<clock, req>>

-----------------------------------------------------------------------------
(* The clock *)

Tick(d) ==
    /\ clock + d <= MaxClock
    /\ clock' = clock + d
    /\ UNCHANGED <<items, records, last, req>>

-----------------------------------------------------------------------------
(* The database the requests start from: john's rice (in g, no record) and
   lemonade (in l, one record). *)


InitItems ==
    { [id |-> 1, user |-> "john", name |-> NameRice, ident |-> Slugify(NameRice),
       unit |-> 202, minimum |-> 0],
      [id |-> 2, user |-> "john", name |-> NameLemonade,
       ident |-> Slugify(NameLemonade), unit |-> 301, minimum |-> 0] }

InitRecords ==
    { [id |-> 1, item |-> 2, quantity |-> 1000, added |-> 0, note |-> "first"] }

Init ==
    /\ clock = 0
    /\ items = InitItems
    /\ records = InitRecords
    /\ last = NoRequest
    /\ req = [w \in {} |-> 0]

Next ==
    \/ \E d \in TickSteps : Tick(d)
    \/ \E user \in Users, id \in ItemIds, quantity \in QuantityInputs,
          unit \in UnitInputs, note \in NoteInputs :
          AddRecord(user, id, quantity, unit, note)
    \/ \E user \in Users, note \in NoteInputs :
          \E data \in UpdateData(user) : Update(user, data, note)

Spec == Init /\ [][Next]_vars

\* The database the item requests start from: john's rice (in g) with one
\* record.
InitItemRequests ==
    /\ clock = 0
    /\ items = { i \in InitItems : i.id = 1 }
    /\ records = { [id |-> 1, item |-> 1, quantity |-> 1000, added |-> 0,
                    note |-> "first"] }
    /\ last = NoRequest
    /\ req = [w \in {} |-> 0]

\* The item requests, with record submissions, at one reading of the clock.
NextItems ==
    \/ \E user \in Users, name \in NameInputs, unit \in UnitInputs,
          minimum \in QuantityInputs, quantity \in QuantityInputs :
          AddItem(user, name, unit, minimum, quantity)
    \/ \E user \in Users, id \in ItemIds, name \in NameInputs,
          unit \in UnitInputs, minimum \in QuantityInputs :
          EditItem(user, id, name, unit, minimum)
    \/ \E user \in Users, id \in ItemIds, quantity \in QuantityInputs,
          unit \in UnitInputs, note \in NoteInputs :
          AddRecord(user, id, quantity, unit, note)

SpecItems == InitItemRequests /\ [][NextItems]_vars

\* Item edits and record submissions on john's two items, at one reading of
\* the clock.
NextEdit ==
    \/ \E user \in Users, id \in ItemIds, name \in NameInputs,
          unit \in UnitInputs, minimum \in QuantityInputs :
          EditItem(user, id, name, unit, minimum)
    \/ \E user \in Users, id \in ItemIds, quantity \in QuantityInputs,
          unit \in UnitInputs, note \in NoteInputs :
          AddRecord(user, id, quantity, unit, note)

SpecEdit == Init /\ [][NextEdit]_vars

-----------------------------------------------------------------------------
(* Two workers handling AddRecord.post at the same time.  AddRecordForm.save
   reads the latest record and writes inside atomic(), a transaction of the
   database's default isolation (READ COMMITTED): the read takes no lock,
   and what a transaction wrote is seen by the others once it commits. *)

Workers == {1, 2}

Idle ==
    [pc |-> "idle", item |-> 0, quantity |-> 0, note |-> "", added |-> 0,
     latest |-> NoRecord]

\* AddRecord.post up to added = now() in AddRecordForm.save; a request the
\* form rejects ends here.
StartAddRecord(w, user, id, quantity, unit, note) ==
    /\ req[w].pc = "idle"
    /\ \E item \in items : item.id = id /\ item.user = user
    /\ req' = [req EXCEPT ![w] =
                 IF AddRecordFormErrors(Item(id), quantity, unit) = {}
                 THEN [pc |-> "started", item |-> id,
                       quantity |-> ToBase(quantity[1], unit), note |-> note,
                       added |-> clock, latest |-> NoRecord]
                 ELSE [Idle EXCEPT !.pc = "invalid", !.item = id]]
    /\ UNCHANGED <<clock, items, records, last>>

\* latest_record = Record.objects.filter(item=...).order_by("added").last()
ReadLatest(w) ==
    /\ req[w].pc = "started"
    /\ \E latest \in LatestRecords(records, req[w].item) :
         req' = [req EXCEPT ![w].pc = "read", ![w].latest = latest]
    /\ UNCHANGED <<clock, items, records, last>>

\* The rest of AddRecordForm.save and of AddRecord.post, and the commit:
\* instance.save() writes the row of the latest record that was read (an
\* UPDATE of every column by primary key), or inserts a new row.
WriteRecord(w) ==
    /\ req[w].pc = "read"
    /\ records' =
         IF IsDoublePost(req[w].latest, req[w].added)
         THEN { r \in records : r.id # req[w].latest.id }
              \cup {[req[w].latest EXCEPT !.added = req[w].added,
                                          !.quantity = req[w].quantity]}
         ELSE records \cup {[id |-> NextId(records), item |-> req[w].item,
                             quantity |-> req[w].quantity, added |-> clock,
                             note |-> req[w].note]}
    /\ items' = ItemSave(items, Item(req[w].item))
    /\ req' = [req EXCEPT ![w].pc = "done"]
    /\ UNCHANGED <<clock, last>>

InitConc ==
    /\ clock = 0
    /\ items = InitItems
    /\ records = InitRecords
    /\ last = NoRequest
    /\ req = [w \in Workers |-> Idle]

NextConc ==
    \/ \E d \in TickSteps : Tick(d)
    \/ \E w \in Workers, user \in Users, id \in ItemIds,
          quantity \in QuantityInputs, unit \in UnitInputs, note \in NoteInputs :
          StartAddRecord(w, user, id, quantity, unit, note)
    \/ \E w \in Workers : ReadLatest(w)
    \/ \E w \in Workers : WriteRecord(w)

SpecConc == InitConc /\ [][NextConc]_vars

-----------------------------------------------------------------------------
(* operations.py: ESTIMATED_DAYS_LEFT, find_average_use;
   models.py: Item.latest_record, Item.expected_end *)

\* NULL of the database, None of Python
None == <<>>

RECURSIVE GCD(_, _)
GCD(a, b) == IF b = 0 THEN a ELSE GCD(b, a % b)

\* The number n/d (n >= 0, d > 0) in lowest terms.
Frac(n, d) == <<n \div GCD(n, d), d \div GCD(n, d)>>

\* (a / b) * c in lowest terms; c and b are reduced before the product is
\* taken.
FracTimes(a, b, c) ==
    Frac(a * (c \div GCD(c, b)), b \div GCD(c, b))

\* lead(...) OVER (PARTITION BY item_id ORDER BY added): the next row of the
\* item by added, NULL for the item's last row.
Lead(recs, r) ==
    LET later == { s \in RecordsOf(recs, r.item) : s.added > r.added }
    IN  IF later = {} THEN NoRecord
        ELSE CHOOSE s \in later : \A t \in later : s.added <= t.added

\* greatest(q0 - q1, 0) with gains allowed to count as negative drops.
DropSigned(q0, lead) ==
    IF lead = NoRecord THEN 0 ELSE q0 - lead.quantity

\* greatest(q0 - q1, 0): greatest ignores a NULL argument, so the item's
\* last row gives 0.
Drop(q0, lead) ==
    IF lead = NoRecord THEN 0
    ELSE IF q0 - lead.quantity > 0 THEN q0 - lead.quantity ELSE 0

\* sum(greatest(q0 - q1, 0)) over the rows of the item
RECURSIVE SumDrops(_, _)
SumDrops(recs, rows) ==
    IF rows = {} THEN 0
    ELSE LET r == CHOOSE x \in rows : TRUE
         IN  Drop(r.quantity, Lead(recs, r)) + SumDrops(recs, rows \ {r})

\* sum(extract(EPOCH FROM a1 - a0)) over the rows of the item whose a1 is
\* not NULL (sum skips NULL)
RECURSIVE SumSeconds(_, _)
SumSeconds(recs, rows) ==
    IF rows = {} THEN 0
    ELSE LET r == CHOOSE x \in rows : TRUE
             lead == Lead(recs, r)
         IN  (IF lead = NoRecord THEN 0 ELSE lead.added - r.added)
             + SumSeconds(recs, rows \ {r})

\* nullif(x, 0) with the zero kept.
KeepZero(x) == x

\* nullif(x, 0)
NullIf(x) == IF x[1] = 0 THEN None ELSE x

\* The column average of ESTIMATED_DAYS_LEFT for the item, as
\* result.get(i.id) of find_average_use reads it: None when the item has no
\* row; NULL when sum of the seconds is NULL (no row has a lead); otherwise
\* nullif(sum of drops / sum of seconds * 86400, 0), in thousandths a day.
Average(recs, id) ==
    LET rows == RecordsOf(recs, id)
    IN  IF rows = {} THEN None
        ELSE IF \A r \in rows : Lead(recs, r) = NoRecord THEN None
        ELSE NullIf(FracTimes(SumDrops(recs, rows), SumSeconds(recs, rows),
                              86400))

\* The days from the model's time 0 (1 January 2020, the year of the test
\* fixtures) to datetime.max: a datetime past it is an OverflowError.
DaysToMaxDatetime == 2914634

\* Item.expected_end(): None unless the latest record exists with a non-zero
\* quantity and average is truthy; then latest_record.added +
\* timedelta(days=quantity / average), which raises OverflowError when the
\* sum is past datetime.max.
ExpectedEnd(latest, average) ==
    IF latest # NoRecord /\ latest.quantity # 0 /\ average # None
                         /\ average[1] # 0
    THEN LET days == Frac(latest.quantity * average[2], average[1])
         IN  IF latest.added \div 86400 + days[1] \div days[2]
                  >= DaysToMaxDatetime
             THEN [kind |-> "OverflowError", added |-> 0, days |-> None]
             ELSE [kind |-> "datetime", added |-> latest.added, days |-> days]
    ELSE [kind |-> "None", added |-> 0, days |-> None]

\* find_average_use((item,)): the item object gets its attribute average.
FindAverageUse(id) ==
    /\ \E i \in items : i.id = id
    /\ last.op = "none"
    /\ last' = [op |-> "find_average_use", item |-> id,
                average |-> Average(records, id),
                end |-> [kind |-> "", added |-> 0, days |-> None]]
    /\ UNCHANGED <<clock, items, records, req>>

\* item.expected_end() on an item fetched by Item.with_latest_record() and
\* passed through find_average_use.
CallExpectedEnd(id) ==
    /\ last.op = "find_average_use" /\ last.item = id
    /\ \E latest \in LatestRecords(records, id) :
         last' = [last EXCEPT !.op = "expected_end",
                              !.end = ExpectedEnd(latest, last.average)]
    /\ UNCHANGED <<clock, items, records, req>>

MaxRecords == 3

\* Times of records, in seconds: half a day, one day and four days after
\* time 0.
RateTimes == {0, 43200, 86400, 345600}

\* Quantities of records, in thousandths.
RateQuantities == {0, 999, 1000, 4000000}

\* The histories of item 1: at most MaxRecords records, no two at the same
\* time.
Histories ==
    UNION { { { [id |-> k, item |-> 1, quantity |-> q[k], added |-> t[k],
                 note |-> ""] : k \in 1..n } :
                q \in [1..n -> RateQuantities],
                t \in { f \in [1..n -> RateTimes] :
                          \A a \in 1..n, b \in 1..n : a < b => f[a] < f[b] } } :
            n \in 0..MaxRecords }

InitRate ==
    /\ clock = 0
    /\ items = { i \in InitItems : i.id = 1 }
    /\ records \in Histories
    /\ last = NoRequest
    /\ req = [w \in {} |-> 0]

NextRate ==
    \/ \E id \in ItemIds : FindAverageUse(id)
    \/ \E id \in ItemIds : CallExpectedEnd(id)

SpecRate == InitRate /\ [][NextRate]_vars

-----------------------------------------------------------------------------
(* A quantity entered in a unit, stored in base units and shown again:
   forms.py: AddRecordForm.clean;  models.py: Record.convert_quantity *)

\* Record.convert_quantity(): quantity / unit.convert, a number of
\* thousandths of the unit in lowest terms.
ConvertQuantity(quantity, pk) ==
    Frac(quantity * Convert(pk)[2], Convert(pk)[1])

MaxQuantity == 12

\* The quantities entered, in thousandths: 0.000 to 0.012, and 0.4, 0.5,
\* 1.5 and 2.5.
EnteredQuantities == 0..MaxQuantity \cup {400, 500, 1500, 2500}

\* AddRecordForm.clean: cleaned_data["quantity"] =
\* round(quantity * unit.convert, DP_QUANTITY), which instance.save() stores.
StoreQuantity ==
    /\ last.op = "entered"
    /\ last' = [last EXCEPT !.op = "stored",
                            !.base = ToBase(last.quantity, last.unit)]
    /\ UNCHANGED <<clock, items, records, req>>

\* record.convert_quantity() of the stored record, the item's unit being
\* the unit the quantity was entered in.
ShowQuantity ==
    /\ last.op = "stored"
    /\ last' = [last EXCEPT !.op = "shown",
                            !.shown = ConvertQuantity(last.base, last.unit)]
    /\ UNCHANGED <<clock, items, records, req>>

InitConv ==
    /\ clock = 0
    /\ items = {}
    /\ records = {}
    /\ \E pk \in UnitPks, quantity \in EnteredQuantities :
         last = [op |-> "entered", unit |-> pk, quantity |-> quantity,
                 base |-> 0, shown |-> None]
    /\ req = [w \in {} |-> 0]

NextConv == StoreQuantity \/ ShowQuantity

SpecConv == InitConv /\ [][NextConv]_vars

-----------------------------------------------------------------------------
(* The terms the properties of the requests are stated in *)

\* A record submission the form accepts: a quantity that is a number >= 0
\* and a unit of the measure of the item's unit.
AcceptedSubmission(id, quantity, unit) ==
    /\ quantity # Blank
    /\ quantity[1] >= 0
    /\ unit \in UnitPks
    /\ Unit(unit).measure = Unit(Item(id).unit).measure

\* The records of the item that are its most recent and less than one
\* minute older than the clock.
RecentLatest(id) ==
    { r \in RecordsOf(records, id) :
        /\ \A s \in RecordsOf(records, id) : s.added <= r.added
        /\ clock - r.added < 60 }

\* The step overwrote quantity and timestamp of the record r of the item and
\* left the number of the item's records as it was.
Overwrote(id, r, quantity) ==
    /\ \E w \in records' : w.id = r.id /\ w.quantity = quantity /\ w.added = clock
    /\ Cardinality(RecordsOf(records', id)) = Cardinality(RecordsOf(records, id))

\* The step inserted exactly one record, a record of the item, and changed
\* no record of the item.
InsertedOne(id) ==
    /\ RecordsOf(records, id) \subseteq RecordsOf(records', id)
    /\ Cardinality(RecordsOf(records', id)) = Cardinality(RecordsOf(records, id)) + 1

-----------------------------------------------------------------------------
(* C1: a single record submission, handled on its own, overwrites quantity
   and timestamp of the item's most recent record when that record is less
   than one minute older than the submission, the item's record count
   unchanged; otherwise (no record, or a latest record one minute old or
   more, exactly 60 seconds included) it inserts exactly one record and
   changes no existing record. *)
C1_MergeOrInsert ==
    [][ \A user \in Users, id \in ItemIds, quantity \in QuantityInputs,
           unit \in UnitInputs, note \in NoteInputs :
          ( /\ last'.op = "AddRecord"
            /\ AddRecord(user, id, quantity, unit, note)
            /\ AcceptedSubmission(id, quantity, unit) )
          => IF RecentLatest(id) # {}
             THEN \A r \in RecentLatest(id) :
                    Overwrote(id, r, ToBase(quantity[1], unit))
             ELSE /\ InsertedOne(id)
                  /\ records \subseteq records'
                  /\ Cardinality(records') = Cardinality(records) + 1 ]_vars

\* A submission was merged into the latest record of one item while another
\* item holds two records exactly 60 seconds apart: the second of them was
\* inserted, not merged.
C1_Witness ==
    /\ last.op = "AddRecord"
    /\ last.merged # {}
    /\ \E r \in records, w \in records :
         r.item = w.item /\ w.added - r.added = 60

-----------------------------------------------------------------------------
\* Some field of the batch fails validation: a negative quantity.
SomeFieldInvalid(user, data) ==
    \E i \in items : i.user = user /\ data[i.id] # Blank /\ data[i.id][1] < 0

(* C3: a bulk update applies the one-minute policy to each item on its own.
   For every item of the batch with a submitted quantity, the item's latest
   record is overwritten (quantity, timestamp) iff that record is less than
   one minute old, and otherwise one new record with the submitted quantity
   and note is inserted for it; which of the two depends on the item's own
   records only.  An item with no submitted quantity keeps its records. *)
C3_BulkPerItem ==
    [][ \A user \in Users, note \in NoteInputs : \A data \in UpdateData(user) :
          ( /\ last'.op = "Update"
            /\ Update(user, data, note)
            /\ ~SomeFieldInvalid(user, data) )
          => \A i \in items :
               IF i.user = user /\ data[i.id] # Blank
               THEN IF RecentLatest(i.id) # {}
                    THEN \A r \in RecentLatest(i.id) :
                           Overwrote(i.id, r, ToBase(data[i.id][1], i.unit))
                    ELSE /\ InsertedOne(i.id)
                         /\ \A w \in RecordsOf(records', i.id)
                                     \ RecordsOf(records, i.id) :
                              /\ w.quantity = ToBase(data[i.id][1], i.unit)
                              /\ w.note = note
                              /\ w.added = clock
               ELSE RecordsOf(records', i.id) = RecordsOf(records, i.id) ]_vars

\* One bulk update merged into the latest record of one item and inserted a
\* record for another item, which had an older record already.
C3_Witness ==
    /\ last.op = "Update"
    /\ \E a \in last.merged, b \in last.inserted :
         /\ a # b
         /\ Cardinality(RecordsOf(records, b)) >= 2

-----------------------------------------------------------------------------
(* C4: a bulk update writes nothing unless every field validates: when any
   field of the batch fails validation the stored records (and items) are
   the same before and after the request, and save() on a form with errors
   raises and writes nothing. *)
C4_AllOrNothing ==
    /\ [][ \A user \in Users, note \in NoteInputs : \A data \in UpdateData(user) :
             ( /\ last'.op = "Update"
               /\ Update(user, data, note)
               /\ SomeFieldInvalid(user, data) )
             => records' = records /\ items' = items ]_vars
    /\ [] ( \A user \in Users, note \in NoteInputs : \A data \in UpdateData(user) :
              SomeFieldInvalid(user, data)
              => \A latestOf \in LatestOfItems(records, { i.id : i \in ItemsOf(user) }) :
                   UpdateFormSave(records, UpdateFormErrors(ItemsOf(user), data),
                                  UpdateFormClean(ItemsOf(user), data), note, clock,
                                  latestOf)
                   = [raised |-> TRUE, records |-> records] )

\* A bulk update was refused although the user has records and items.
C4_Witness ==
    /\ last.op = "Update"
    /\ last.outcome = "invalid"
    /\ \E i \in ItemsOf(last.user) : RecordsOf(records, i.id) # {}

-----------------------------------------------------------------------------
(* C2: under any interleaving of two record submissions for the same item
   that are handled at the same time and arrive less than one minute apart,
   the item gains at most one new record from the pair. *)
C2_NoDoubleInsert ==
    ( /\ \A w \in Workers : req[w].pc = "done"
      /\ req[1].item = req[2].item
      /\ req[1].added - req[2].added < 60
      /\ req[2].added - req[1].added < 60 )
    => Cardinality(RecordsOf(records, req[1].item))
         <= Cardinality(RecordsOf(InitRecords, req[1].item)) + 1

-----------------------------------------------------------------------------
\* The unit is a unit of another measure than the item's current unit.
OtherMeasure(id, unit) ==
    /\ unit \in UnitPks
    /\ Unit(unit).measure # Unit(Item(id).unit).measure

(* C8: a record submission or an item edit that names a unit of another
   measure than the item's current unit fails validation, whatever its other
   fields hold, and changes nothing: the items and the records are as they
   were before the request. *)
C8_CrossMeasureRejected ==
    [][ /\ \A user \in Users, id \in ItemIds, quantity \in QuantityInputs,
              unit \in UnitInputs, note \in NoteInputs :
             ( /\ last'.op = "AddRecord" /\ last'.item = id /\ last'.unit = unit
               /\ OtherMeasure(id, unit)
               /\ AddRecord(user, id, quantity, unit, note) )
             => /\ last'.outcome = "invalid"
                /\ items' = items /\ records' = records
        /\ \A user \in Users, id \in ItemIds, name \in NameInputs,
              unit \in UnitInputs, minimum \in QuantityInputs :
             ( /\ last'.op = "EditItem" /\ last'.item = id /\ last'.unit = unit
               /\ OtherMeasure(id, unit)
               /\ EditItem(user, id, name, unit, minimum) )
             => /\ last'.outcome = "invalid"
                /\ items' = items /\ records' = records ]_vars

\* An edit of an item whose unit was changed before (rice, from g to kg) was
\* rejected for naming a unit of another measure.
C8_Witness ==
    /\ last.op = "EditItem"
    /\ last.outcome = "invalid"
    /\ OtherMeasure(last.item, last.unit)
    /\ Item(last.item).unit # (CHOOSE i \in InitItems : i.id = last.item).unit

-----------------------------------------------------------------------------
\* to_base as the specification words it: quantity * unit.convert rounded to
\* thousandths, a tie away from zero.
ToBaseHalfUp(quantity, pk) ==
    RoundHalfUp(quantity * Convert(pk)[1], Convert(pk)[2])

(* C9: every accepted record submission and every bulk update stores, for
   each submitted quantity, quantity * unit.convert rounded to 3 decimal
   places half-up: the record written at the time of the request holds
   ToBaseHalfUp of what was entered. *)
C9_StoresHalfUp ==
    [][ /\ \A user \in Users, id \in ItemIds, quantity \in QuantityInputs,
              unit \in UnitInputs, note \in NoteInputs :
             ( /\ last'.op = "AddRecord" /\ last'.item = id /\ last'.unit = unit
               /\ AddRecord(user, id, quantity, unit, note)
               /\ AcceptedSubmission(id, quantity, unit) )
             => \E w \in RecordsOf(records', id) :
                  /\ w.added = clock
                  /\ w.quantity = ToBaseHalfUp(quantity[1], unit)
        /\ \A user \in Users, note \in NoteInputs : \A data \in UpdateData(user) :
             ( /\ last'.op = "Update"
               /\ Update(user, data, note)
               /\ ~SomeFieldInvalid(user, data) )
             => \A i \in ItemsOf(user) :
                  data[i.id] # Blank
                  => \E w \in RecordsOf(records', i.id) :
                       /\ w.added = clock
                       /\ w.quantity = ToBaseHalfUp(data[i.id][1], i.unit) ]_vars

-----------------------------------------------------------------------------
(* The consumption rate as the specification words it *)

\* The number of records of the item.
Count(id) == Cardinality(RecordsOf(records, id))

\* The k-th record of the item in time-ascending order, k in 1..Count(id).
Nth(id, k) ==
    CHOOSE r \in RecordsOf(records, id) :
        Cardinality({ s \in RecordsOf(records, id) : s.added < r.added }) = k - 1

\* max(r[k].quantity - r[k+1].quantity, 0)
PairDrop(id, k) ==
    IF Nth(id, k).quantity > Nth(id, k + 1).quantity
    THEN Nth(id, k).quantity - Nth(id, k + 1).quantity
    ELSE 0

\* The sum of PairDrop over the consecutive pairs k, k+1 for k in 1..n.
RECURSIVE PooledDrops(_, _)
PooledDrops(id, n) ==
    IF n <= 0 THEN 0 ELSE PairDrop(id, n) + PooledDrops(id, n - 1)

\* r[n].timestamp - r[0].timestamp, in seconds.
Elapsed(id) == Nth(id, Count(id)).added - Nth(id, 1).added

\* find_average_use has run for the item.
HasAverage == last.op \in {"find_average_use", "expected_end"}

(* C5: for an item with at least two records in time-ascending order, the
   estimated rate is the sum of the drops of the consecutive pairs (a
   restocking pair counting as zero) divided by the seconds from the first
   record to the last, times 86400: average = n/d with
   n / d = drops * 86400 / elapsed.  Every record time is a multiple of
   43200 seconds, so the equation is compared as
   n * (elapsed / 43200) = drops * 2 * d.  A rate of zero is reported as
   None. *)
C5_PooledRate ==
    ( HasAverage /\ Count(last.item) >= 2 )
    => LET drops == PooledDrops(last.item, Count(last.item) - 1)
           halfDays == Elapsed(last.item) \div 43200
       IN  IF drops = 0 THEN last.average = None
           ELSE /\ last.average # None
                /\ last.average[1] * halfDays = drops * 2 * last.average[2]

\* The rate of a history of three records with a drop and then a restocking
\* is a number.
C5_Witness ==
    /\ HasAverage
    /\ Count(last.item) = 3
    /\ Nth(last.item, 1).quantity > Nth(last.item, 2).quantity
    /\ Nth(last.item, 2).quantity < Nth(last.item, 3).quantity
    /\ last.average # None

(* C6: the rate is None, never the number zero, when the item has fewer
   than two records or no consecutive pair of its records shows a decrease;
   it is a number, and not zero, exactly when some consecutive pair shows a
   decrease. *)
C6_NoneNotZero ==
    HasAverage
    => /\ last.average # None => last.average[1] # 0
       /\ last.average # None
          <=> /\ Count(last.item) >= 2
              /\ \E k \in 1..(Count(last.item) - 1) :
                   Nth(last.item, k).quantity > Nth(last.item, k + 1).quantity

\* The rate of a history of three records, one of them a restocking and none
\* a decrease, is None.
C6_Witness ==
    /\ HasAverage
    /\ Count(last.item) = 3
    /\ Nth(last.item, 1).quantity < Nth(last.item, 2).quantity
    /\ Nth(last.item, 2).quantity = Nth(last.item, 3).quantity
    /\ last.average = None

(* C7: expected_end returns a timestamp if and only if the item has a latest
   record, the quantity of that record is not zero and the rate is defined;
   the timestamp is then the latest record's time plus quantity / rate
   days (a number of days in lowest terms); in every other case it returns
   None, and it never raises. *)
C7_ExpectedEndIff ==
    last.op = "expected_end"
    => LET n == Count(last.item)
           defined == /\ n >= 1
                      /\ Nth(last.item, n).quantity # 0
                      /\ last.average # None
       IN  IF defined
           THEN /\ last.end.kind = "datetime"
                /\ last.end.added = Nth(last.item, n).added
                /\ last.end.days
                     = Frac(Nth(last.item, n).quantity * last.average[2],
                            last.average[1])
           ELSE last.end.kind = "None"

-----------------------------------------------------------------------------
\* |a|
Abs(a) == IF a < 0 THEN -a ELSE a

(* C10 as stated: for every unit and every quantity q >= 0 of at most 3
   decimal places, from_base(to_base(q, U), U) differs from q by no more
   than the 3-decimal rounding tolerance, taken here as one unit of the
   third decimal place: with shown = n/d thousandths, |n/d - q| <= 1. *)
C10_RoundTripWithinTolerance ==
    last.op = "shown"
    => Abs(last.shown[1] - last.quantity * last.shown[2]) <= last.shown[2]

(* C10 amended: from_base(to_base(q, U), U) differs from q by at most
   0.0005 / U.convert: with shown = n/d thousandths and convert = num/den,
   |n/d - q| <= den / (2 * num). *)
C10_RoundTripWithinScaledTolerance ==
    last.op = "shown"
    => 2 * Convert(last.unit)[1]
         * Abs(last.shown[1] - last.quantity * last.shown[2])
       <= Convert(last.unit)[2] * last.shown[2]

\* 0.4 entered in a unit of convert 0.001 was stored as 0.000 and is shown
\* as 0: the difference, 0.4, is above one unit of the third decimal place.
C10_Witness ==
    /\ last.op = "shown"
    /\ Convert(last.unit) = <<1, 1000>>
    /\ last.quantity = 400
    /\ last.base = 0
    /\ last.shown = <<0, 1>>

-----------------------------------------------------------------------------
(* models.py: round_quantity, format_quantity.

   A Decimal here is a record: kind "finite" with the value
   sign * coeff * 10^exp (sign 1 or -1, coeff >= 0), or kind "NaN" or
   "Infinity" (with its sign). *)

MAX_DIGITS == 12

\* The precision of the default decimal context (decimal.getcontext().prec).
ContextPrec == 28

NaN == [kind |-> "NaN", sign |-> 1, coeff |-> 0, exp |-> 0]

Infinity(sign) == [kind |-> "Infinity", sign |-> sign, coeff |-> 0, exp |-> 0]

Finite(sign, coeff, exp) ==
    [kind |-> "finite", sign |-> sign, coeff |-> coeff, exp |-> exp]

\* 10^k, k >= 0
RECURSIVE Pow10(_)
Pow10(k) == IF k <= 0 THEN 1 ELSE 10 * Pow10(k - 1)

\* The number of decimal digits of n >= 0 (0 has one digit).
RECURSIVE Digits(_)
Digits(n) == IF n < 10 THEN 1 ELSE 1 + Digits(n \div 10)

\* value.quantize(Decimal(10) ** -places) raises InvalidOperation: the value
\* has fewer places and its coefficient, padded with zeros, would be longer
\* than the precision of the context.
QuantizeRaises(d, places) ==
    /\ d.coeff # 0
    /\ d.exp >= -places
    /\ Digits(d.coeff) + d.exp + places > ContextPrec

\* Quantize with ties rounded to the even digit (the default context).
QuantizeHalfEven(d, places) ==
    IF d.exp >= -places THEN d
    ELSE Finite(d.sign, RoundHalfEven(d.coeff, Pow10(-places - d.exp)), -places)

\* round(value, places) of a finite Decimal under ROUND_HALF_UP, that is
\* value.quantize(Decimal(10) ** -places): the result has the exponent
\* -places.  A value with fewer places is padded with zeros, and a
\* coefficient that would then be longer than the context's precision is
\* an InvalidOperation (QuantizeRaises); the padded value is kept as it is written, since
\* it is the same number.  A value with more places is rounded, a tie
\* going away from zero.
Quantize(d, places) ==
    IF d.exp >= -places THEN d
    ELSE Finite(d.sign, RoundHalfUp(d.coeff, Pow10(-places - d.exp)), -places)

\* The value of a finite Decimal with exp >= -DP_QUANTITY and fewer than
\* ten digits before the point, in thousandths.
Thousandths(d) == d.sign * d.coeff * Pow10(d.exp + DP_QUANTITY)

\* abs(r1 - r0) <= 10 ** -DP_QUANTITY for r0 = round(value, 3) and
\* r1 = round(value, 2).  The right side is the float nearest to 0.001,
\* which is not below 0.001.  When value has at most 2 places r0 and r1
\* are the same number.
WithinOneThousandth(r0, r1) ==
    \/ r0 = r1
    \/ LET diff == Thousandths(r1) - Thousandths(r0)
       IN  diff <= 1 /\ -diff <= 1

\* round_quantity(value): [raises |-> the exception, value |-> the result]
round_quantity(value) ==
    IF value.kind # "finite"
    THEN [raises |-> "ValueError", value |-> NaN]
    ELSE IF QuantizeRaises(value, DP_QUANTITY)
            \/ QuantizeRaises(value, DP_QUANTITY - 1)
    THEN [raises |-> "InvalidOperation", value |-> NaN]
    ELSE LET r0 == Quantize(value, DP_QUANTITY)
             r1 == Quantize(value, DP_QUANTITY - 1)
         IN  [raises |-> "",
              value |-> IF WithinOneThousandth(r0, r1) THEN r1 ELSE r0]

\* The decimal exponent of a finite Decimal that is not zero: the X of
\* value = m * 10^X with 1 <= m < 10.
Exponent10(d) == Digits(d.coeff) + d.exp - 1

\* "%.*g" % (MAX_DIGITS, x): the style e is used when X < -4 or
\* X >= MAX_DIGITS, X the decimal exponent of x, and the style f otherwise;
\* zero is printed as 0.  The coefficients of the model have fewer than
\* MAX_DIGITS digits, so every digit of x is printed.
ExponentialStyle(d) ==
    /\ d.coeff # 0
    /\ Exponent10(d) < -4 \/ Exponent10(d) >= MAX_DIGITS

\* format_quantity(value, delta): the exception raised, or the text: the
\* number it shows, in which style, and whether a plus sign is printed.
format_quantity(value, delta) ==
    LET r == round_quantity(value)
    IN  IF r.raises # ""
        THEN [raises |-> r.raises, value |-> NaN, exponential |-> FALSE,
              plus |-> FALSE]
        ELSE [raises |-> "", value |-> r.value,
              exponential |-> ExponentialStyle(r.value),
              plus |-> delta /\ r.value.sign = 1]

MaxExponent == 25

\* The coefficients of the Decimals given to the functions.
CoeffInputs ==
    {0, 1, 4, 5, 6, 15, 95, 995, 999, 1000, 1001, 1231, 1234, 1235, 1239,
     1999, 10045, 12345, 12355, 99995, 99999}

\* The Decimals given to the functions: 0.00001 to 99999e25 of both signs,
\* NaN and the infinities.
DecimalInputs ==
    {NaN, Infinity(1), Infinity(-1)}
    \cup { Finite(sign, coeff, exp) :
             sign \in {1, -1}, coeff \in CoeffInputs, exp \in -5..MaxExponent }

\* r = round_quantity(value)
CallRoundQuantity ==
    /\ last.op = "value"
    /\ last' = [last EXCEPT !.op = "round_quantity",
                  !.result = [raises |-> round_quantity(last.value).raises,
                              value |-> round_quantity(last.value).value,
                              exponential |-> FALSE, plus |-> FALSE]]
    /\ UNCHANGED <<clock, items, records, req>>

\* text = format_quantity(value, delta)
CallFormatQuantity(delta) ==
    /\ last.op = "value"
    /\ last' = [last EXCEPT !.op = "format_quantity",
                            !.result = format_quantity(last.value, delta)]
    /\ UNCHANGED <<clock, items, records, req>>

InitFormat ==
    /\ clock = 0
    /\ items = {}
    /\ records = {}
    /\ \E value \in DecimalInputs :
         last = [op |-> "value", value |-> value,
                 result |-> [raises |-> "", value |-> NaN,
                             exponential |-> FALSE, plus |-> FALSE]]
    /\ req = [w \in {} |-> 0]

NextFormat ==
    \/ CallRoundQuantity
    \/ \E delta \in BOOLEAN : CallFormatQuantity(delta)

SpecFormat == InitFormat /\ [][NextFormat]_vars

-----------------------------------------------------------------------------
\* r is v / step rounded to an integer half-up: no integer is nearer to
\* v / step, and of two that are equally near r is the one away from zero.
IsHalfUp(v, step, r) ==
    /\ 2 * Abs(v - r * step) <= step
    /\ 2 * Abs(v - r * step) = step => Abs(r * step) > Abs(v)

\* v / step rounded half-up, found among the two integers around v / step.
HalfUpOf(v, step) ==
    CHOOSE r \in {v \div step, v \div step + 1} : IsHalfUp(v, step, r)

\* A finite Decimal of exponent -5 or more and less than 100 in magnitude,
\* in units of 0.00001.
HundredThousandths(d) == d.sign * d.coeff * Pow10(d.exp + 5)

(* C11: round_quantity rounds the value half-up to 3 decimal places (r3) and
   to 2 decimal places (r2), a tie going away from zero for both signs, and
   returns r2 when |r2 - r3| <= 0.001 and r3 otherwise; so 1.231 gives 1.23,
   1.239 gives 1.24, 1.999 gives 2, 1.234 gives 1.234 and 1.2345 gives
   1.235.  A value of at most 2 decimal places is returned as it is. *)
C11_RoundQuantity ==
    ( /\ last.op = "round_quantity"
      /\ last.value.kind = "finite"
      /\ last.result.raises = "" )
    => /\ last.value.exp >= 1 - DP_QUANTITY => last.result.value = last.value
       /\ last.value.exp < 1 - DP_QUANTITY
          => LET v == HundredThousandths(last.value)
                 r3 == HalfUpOf(v, 100)
                 r2 == 10 * HalfUpOf(v, 1000)
             IN  Thousandths(last.result.value)
                   = IF Abs(r2 - r3) <= 1 THEN r2 ELSE r3
       /\ last.value = Finite(1, 1231, -3)
          => Thousandths(last.result.value) = 1230
       /\ last.value = Finite(1, 1239, -3)
          => Thousandths(last.result.value) = 1240
       /\ last.value = Finite(1, 1999, -3)
          => Thousandths(last.result.value) = 2000
       /\ last.value = Finite(1, 1234, -3)
          => Thousandths(last.result.value) = 1234
       /\ last.value = Finite(1, 12345, -4)
          => Thousandths(last.result.value) = 1235

\* round_quantity(-1.2345) returned -1.235: a tie at the third place, of a
\* negative value, went away from zero and the 3-place rounding was kept.
C11_Witness ==
    /\ last.op = "round_quantity"
    /\ last.value = Finite(-1, 12345, -4)
    /\ last.result.raises = ""
    /\ Thousandths(last.result.value) = -1235

(* C12: for every finite Decimal, of any magnitude, format_quantity returns
   a text, without raising and without exponential notation; for NaN and
   the infinities it raises ValueError. *)
C12_FormatTotal ==
    last.op = "format_quantity"
    => IF last.value.kind = "finite"
       THEN last.result.raises = "" /\ ~last.result.exponential
       ELSE last.result.raises = "ValueError"

-----------------------------------------------------------------------------
(* common/dt.py: dates, datetimes and since *)

\* The year of day number 0.  datetime.date counts days from a fixed first
\* day (date.toordinal); here the count starts on 1 January of this year.
EpochYear == 2016

\* calendar.isleap
IsLeap(y) == (y % 4 = 0 /\ y % 100 # 0) \/ y % 400 = 0

\* calendar.monthrange(y, m)[1]: the number of days of month m of year y.
monthrange(y, m) ==
    IF m = 2 THEN (IF IsLeap(y) THEN 29 ELSE 28)
    ELSE IF m \in {4, 6, 9, 11} THEN 30 ELSE 31

DaysInYear(y) == IF IsLeap(y) THEN 366 ELSE 365

RECURSIVE DaysBeforeYear(_)
DaysBeforeYear(y) ==
    IF y <= EpochYear THEN 0 ELSE DaysBeforeYear(y - 1) + DaysInYear(y - 1)

RECURSIVE DaysBeforeMonth(_, _)
DaysBeforeMonth(y, m) ==
    IF m <= 1 THEN 0 ELSE DaysBeforeMonth(y, m - 1) + monthrange(y, m - 1)

\* date.toordinal() of date(y, m, d), counted from 1 January of EpochYear.
toordinal(y, m, d) == DaysBeforeYear(y) + DaysBeforeMonth(y, m) + d - 1

RECURSIVE YearFrom(_, _)
YearFrom(y, n) ==
    IF n < DaysInYear(y) THEN <<y, n>> ELSE YearFrom(y + 1, n - DaysInYear(y))

RECURSIVE MonthFrom(_, _, _)
MonthFrom(y, m, n) ==
    IF n < monthrange(y, m) THEN <<m, n>>
    ELSE MonthFrom(y, m + 1, n - monthrange(y, m))

\* dt.year, dt.month, dt.day and dt.weekday() (Monday is 0) of day number n;
\* 1 January 2016 was a Friday.
YearOf(n) == YearFrom(EpochYear, n)[1]
MonthOf(n) == MonthFrom(YearOf(n), 1, YearFrom(EpochYear, n)[2])[1]
DayOf(n) == MonthFrom(YearOf(n), 1, YearFrom(EpochYear, n)[2])[2] + 1
weekday(n) == (n + 4) % 7

\* A datetime.date, and a datetime.datetime (a subclass of date) with its
\* time of day in seconds.  Every datetime of the model is aware and in the
\* time zone of the process, at one fixed offset from UTC, as the datetimes
\* of tests/test_datetime.py are.
Date(n) == [kind |-> "date", ord |-> n, sec |-> 0]
Datetime(n, s) == [kind |-> "datetime", ord |-> n, sec |-> s]
IsDatetime(dt) == dt.kind = "datetime"

SecondsPerDay == 86400

\* The position of a date or datetime on the time line, in seconds: what
\* <, >= and - of two dates, or of two datetimes, work on.
Instant(dt) == dt.ord * SecondsPerDay + dt.sec

\* date(dt.year, dt.month, dt.day)
DateOf(dt) == Date(dt.ord)

Min(a, b) == IF a < b THEN a ELSE b

\* _calendar_delta(dt, years, months, days).  date(dt.year + years, dt.month,
\* dt.day) raises ValueError when that month has no such day (29 February
\* into a year that is not a leap year); a month step clamps the day; for a
\* datetime the time of day is kept, naive.astimezone(dt.tzinfo) being the
\* same wall clock in the time zone of the process.
calendar_delta(dt, years, months, days) ==
    LET year == YearOf(dt.ord) + years
        month == MonthOf(dt.ord)
        day == DayOf(dt.ord)
        delta == month - 1 + months
        new_year == IF months # 0 THEN year + (delta \div 12) ELSE year
        new_month == IF months # 0 THEN (delta % 12) + 1 ELSE month
        new_day == IF months # 0
                   THEN Min(day, monthrange(new_year, new_month)) ELSE day
    IN  IF day > monthrange(year, month)
        THEN [raises |-> "ValueError", value |-> dt]
        ELSE [raises |-> "",
              value |-> [dt EXCEPT
                           !.ord = toordinal(new_year, new_month, new_day)
                                     + days]]

\* a / b cut down to an integer instead of rounded
PyFloor(a, b) == a \div b

\* round(a / b) of Python for b > 0: the nearest integer, a tie to the even
\* one.
PyRound(a, b) == RoundHalfEven(a, b)

\* The while loop of _calendar_count: step previous back by the period
\* until it is no later than after_first.
RECURSIVE CountBack(_, _, _, _, _, _)
CountBack(previous, after_first, years, months, days, count) ==
    IF Instant(previous) > Instant(after_first)
    THEN LET back == calendar_delta(previous, -years, -months, -days)
         IN  IF back.raises # ""
             THEN [raises |-> back.raises, previous |-> previous,
                   count |-> count]
             ELSE CountBack(back.value, after_first, years, months, days,
                            count + 1)
    ELSE [raises |-> "", previous |-> previous, count |-> count]

\* _calendar_count(first, second, years, months, days), first < second: the
\* number of periods from first to second, the last part of a period
\* rounded.
calendar_count(first, second, years, months, days) ==
    LET after_first == calendar_delta(first, years, months, days)
    IN  IF after_first.raises # ""
        THEN [raises |-> after_first.raises, count |-> 0]
        ELSE LET loop == CountBack(second, after_first.value,
                                   years, months, days, 0)
                 diff_s == Instant(loop.previous) - Instant(first)
                 day_s == Instant(after_first.value) - Instant(first)
             IN  IF loop.raises # ""
                 THEN [raises |-> loop.raises, count |-> 0]
                 ELSE [raises |-> "",
                       count |-> loop.count + PyRound(diff_s, day_s)]

\* What since returns or raises.  A label is its unit ("today", "now",
\* "just now", "yesterday", "tomorrow", or "minute" ... "year"), the count
\* in front of the unit (0 where the label has none), article for "a" or
\* "an" in place of the count, and ago for the " ago" at its end; past is
\* the flag since computed on the way.
Raised(exception) ==
    [raises |-> exception, unit |-> "", count |-> 0, article |-> FALSE,
     ago |-> FALSE, past |-> FALSE]
Fixed(unit, past) ==
    [raises |-> "", unit |-> unit, count |-> 0, article |-> FALSE,
     ago |-> FALSE, past |-> past]
Counted(unit, count, past) ==
    [raises |-> "", unit |-> unit, count |-> count, article |-> count = 1,
     ago |-> past, past |-> past]
CountedOrRaised(unit, counted, past) ==
    IF counted.raises # "" THEN Raised(counted.raises)
    ELSE Counted(unit, counted.count, past)

\* first > _calendar_delta(second, ...), or the exception of the latter
After(first, delta) ==
    IF delta.raises # "" THEN delta.raises
    ELSE IF Instant(first) > Instant(delta.value) THEN "yes" ELSE "no"

\* The direction told by the days alone
IsPastByDay(then, other) == then.ord < other.ord

\* then counted as past also when it equals the reference
IsPastOrEqual(then, other) == Instant(then) <= Instant(other)

\* past of since: then >= other is not past, anything else is
IsPast(then, other) == ~(Instant(then) >= Instant(other))

\* since(then, now) computed from the reference other
SinceOther(then, other) ==
    LET has_time == IsDatetime(then)
        past == IsPast(then, other)
        first == IF past THEN then ELSE other
        second == IF past THEN other ELSE then
        diff == Instant(second) - Instant(first)
        day == After(first, calendar_delta(second, 0, 0, -1))
        week == After(first, calendar_delta(second, 0, 0, -7))
        month == After(first, calendar_delta(second, 0, -1, 0))
        year == After(first, calendar_delta(second, -1, 0, 0))
    IN  IF ~has_time /\ diff = 0 THEN Fixed("today", past)
        ELSE IF has_time /\ diff < 60
        THEN Fixed(IF past THEN "just now" ELSE "now", past)
        ELSE IF has_time /\ diff < 3600
        THEN Counted("minute", PyRound(diff, 60), past)
        ELSE IF has_time /\ day \notin {"yes", "no"} THEN Raised(day)
        ELSE IF has_time /\ day = "yes"
        THEN Counted("hour", PyRound(diff, 3600), past)
        ELSE IF ~has_time /\ diff = SecondsPerDay
        THEN Fixed(IF past THEN "yesterday" ELSE "tomorrow", past)
        ELSE IF week \notin {"yes", "no"} THEN Raised(week)
        ELSE IF week = "yes"
        THEN CountedOrRaised("day",
                             calendar_count(first, second, 0, 0, 1), past)
        ELSE IF month \notin {"yes", "no"} THEN Raised(month)
        ELSE IF month = "yes"
        THEN CountedOrRaised("week",
                             calendar_count(first, second, 0, 0, 7), past)
        ELSE IF year \notin {"yes", "no"} THEN Raised(year)
        ELSE IF year = "yes"
        THEN CountedOrRaised("month",
                             calendar_count(first, second, 0, 1, 0), past)
        ELSE CountedOrRaised("year",
                             calendar_count(first, second, 1, 0, 0), past)

\* now=None: since was called without a reference
NoDate == [kind |-> "None", ord |-> 0, sec |-> 0]

\* since refusing every pair of one date and one datetime, in either order
SinceSameKind(then, now, tz_now) ==
    IF now # NoDate /\ IsDatetime(then) # IsDatetime(now)
    THEN Raised("TypeError")
    ELSE SinceOther(then, IF now = NoDate
                          THEN (IF IsDatetime(then) THEN tz_now
                                ELSE DateOf(tz_now))
                          ELSE now)

\* since(then, now), tz_now being what django.utils.timezone.now() returns.
\* A datetime then takes a datetime reference, the clock when there is none,
\* and raises TypeError on a date-only one; a date-only then takes the date
\* of the reference, whatever its kind.
since(then, now, tz_now) ==
    IF IsDatetime(then) /\ now = NoDate THEN SinceOther(then, tz_now)
    ELSE IF IsDatetime(then) /\ IsDatetime(now) THEN SinceOther(then, now)
    ELSE IF IsDatetime(then) THEN Raised("TypeError")
    ELSE SinceOther(then, DateOf(IF now = NoDate THEN tz_now ELSE now))

\* The furthest then lies from the reference, in days
MaxDays == 800

\* References: 30 April 2020 (the DATE of tests/test_datetime.py, a
\* Thursday), 29 February 2020, 31 March 2020 and 1 January 2021.
ReferenceDays ==
    { toordinal(2020, 4, 30), toordinal(2020, 2, 29),
      toordinal(2020, 3, 31), toordinal(2021, 1, 1) }

\* 12:50:00, the TIME of tests/test_datetime.py
TIME == 12 * 3600 + 50 * 60

\* Differences of two datetimes in seconds, around the edges of the
\* buckets: a minute, the ties of the minute count, an hour, a day, a week,
\* a month, a year.
SecondOffsets ==
    { 0, 1, 30, 59, 60, 89, 90, 91, 149, 150, 151, 1800, 3569, 3570, 3585,
      3599, 3600, 5400, 9000, 86399, 86400, 90000, 172800, 604799, 604800,
      2592000, 2678400, 31536000, 31622400, 63158400 }

DatetimeOffset(ref, s) ==
    Datetime((Instant(ref) + s) \div SecondsPerDay,
             (Instant(ref) + s) % SecondsPerDay)

\* Pairs of a then and a reference: two dates, two datetimes, one of each
\* in either order, and a then without a reference.
SinceInputs ==
    LET dates == { <<Date(r + d), Date(r)>> :
                     r \in ReferenceDays, d \in -MaxDays .. MaxDays }
        times == { <<DatetimeOffset(Datetime(r, TIME), s), Datetime(r, TIME)>> :
                     r \in ReferenceDays,
                     s \in SecondOffsets \cup { -o : o \in SecondOffsets } }
        mixed == { <<Date(r + d), Datetime(r, TIME)>> :
                     r \in ReferenceDays, d \in -8 .. 8 }
                 \cup { <<Datetime(r + d, TIME), Date(r)>> :
                          r \in ReferenceDays, d \in -8 .. 8 }
        alone == { <<Date(r + d), NoDate>> :
                     r \in ReferenceDays, d \in -8 .. 8 }
                 \cup { <<Datetime(r + d, TIME), NoDate>> :
                          r \in ReferenceDays, d \in -8 .. 8 }
    IN  dates \cup times \cup mixed \cup alone

\* django.utils.timezone.now() at the time of the call
TzNow == Datetime(toordinal(2020, 4, 30), TIME + 1)

\* since(then, now)
CallSince ==
    /\ last.op = "value"
    /\ last' = [last EXCEPT !.op = "since",
                            !.result = since(last.then, last.now, TzNow)]
    /\ UNCHANGED <<clock, items, records, req>>

InitSince ==
    /\ clock = 0
    /\ items = {}
    /\ records = {}
    /\ \E pair \in SinceInputs :
         last = [op |-> "value", then |-> pair[1], now |-> pair[2],
                 result |-> Raised("")]
    /\ req = [w \in {} |-> 0]

NextSince == CallSince

SpecSince == InitSince /\ [][NextSince]_vars

-----------------------------------------------------------------------------
\* since was called with a then and a reference of different kinds
MixedKinds ==
    /\ last.op = "since"
    /\ last.now # NoDate
    /\ IsDatetime(last.then) # IsDatetime(last.now)

(* C13 as stated: since raises TypeError for every pair of one date-only and
   one timestamped argument, in either order, and never converts one kind
   to the other. *)
C13_MixedAlwaysTypeError ==
    MixedKinds => last.result.raises = "TypeError"

(* C13: since raises TypeError exactly when then is timestamped and the
   reference is date-only; a date-only then with a timestamped reference
   raises no TypeError: the reference is cut to its date and the call
   returns what since(then, that date) returns. *)
C13_MixedKinds ==
    last.op = "since"
    => /\ last.result.raises = "TypeError"
          <=> (MixedKinds /\ IsDatetime(last.then))
       /\ (MixedKinds /\ ~IsDatetime(last.then))
          => last.result = since(last.then, DateOf(last.now), TzNow)

\* since(date(2020, 4, 29), datetime(2020, 4, 30, 12, 50)) returned
\* "yesterday": the timestamped reference was cut to its date.
C13_Witness ==
    /\ MixedKinds
    /\ last.then = Date(toordinal(2020, 4, 29))
    /\ last.now = Datetime(toordinal(2020, 4, 30), TIME)
    /\ last.result.raises = ""
    /\ last.result.unit = "yesterday"

-----------------------------------------------------------------------------
\* since was called with two date-only arguments
DateOnlyCall ==
    /\ last.op = "since"
    /\ last.then.kind = "date"
    /\ last.now.kind = "date"

\* Day number n moved back by a number of calendar months: the same day of
\* the earlier month, or that month's last day when it has no such day.
MonthsBefore(n, months) ==
    LET index == YearOf(n) * 12 + MonthOf(n) - 1 - months
        y == index \div 12
        m == (index % 12) + 1
    IN  toordinal(y, m, Min(DayOf(n), monthrange(y, m)))

\* The bucket the rule of C14 gives two dates that are d days apart
DateBucket(earlier, later, past) ==
    LET d == later - earlier
    IN  IF d = 0 THEN "today"
        ELSE IF d = 1 THEN (IF past THEN "yesterday" ELSE "tomorrow")
        ELSE IF d <= 6 THEN "day"
        ELSE IF earlier > MonthsBefore(later, 1) THEN "week"
        ELSE IF earlier > MonthsBefore(later, 12) THEN "month"
        ELSE "year"

(* C14: for two date-only arguments d days apart since returns the label of
   exactly one bucket: "today" for d = 0; "yesterday" or "tomorrow" for
   d = 1; d days, counted exactly, for 2 <= d <= 6; otherwise weeks when the
   earlier date is after the later date minus one calendar month, otherwise
   months when it is after the later date minus one calendar year, otherwise
   years; a count of 1 is written with the article. *)
C14_DateBuckets ==
    DateOnlyCall
    => LET earlier == Min(last.then.ord, last.now.ord)
           later == last.then.ord + last.now.ord - earlier
           d == later - earlier
       IN  /\ last.result.raises = ""
           /\ last.result.unit
                = DateBucket(earlier, later, last.then.ord < last.now.ord)
           /\ d \in 2 .. 6 => last.result.count = d /\ ~last.result.article
           /\ d >= 2 => (last.result.article <=> last.result.count = 1)

\* The same with the calls that raised set aside
DateBucketsUnlessRaised ==
    (DateOnlyCall /\ last.result.raises = "") => C14_DateBuckets

-----------------------------------------------------------------------------
\* The reference a call of since compared then with: the reference given,
\* or the clock when none was given; its date for a date-only then.
Reference ==
    LET given == IF last.now = NoDate THEN TzNow ELSE last.now
    IN  IF IsDatetime(last.then) THEN given ELSE DateOf(given)

\* since returned a label
SinceReturned == last.op = "since" /\ last.result.raises = ""

\* The labels that never end in " ago"
PlainLabels == {"now", "just now", "today", "yesterday", "tomorrow"}

(* C15 as stated: since treats then as past exactly when then <= reference,
   and every label other than "now", "just now", "today", "yesterday" and
   "tomorrow" ends in " ago" exactly when then is past. *)
C15_PastIffNotAfter ==
    SinceReturned
    => /\ last.result.past <=> Instant(last.then) <= Instant(Reference)
       /\ last.result.unit \notin PlainLabels
          => (last.result.ago <=> Instant(last.then) <= Instant(Reference))

(* C15: since treats then as past exactly when then < reference, and as not
   past when then equals the reference or is after it (so then = reference
   gives "now", not "just now"); every label other than "now", "just now",
   "today", "yesterday" and "tomorrow" ends in " ago" exactly when then is
   past, and "just now" and "yesterday" are the labels of a past then. *)
C15_PastIffBefore ==
    SinceReturned
    => /\ last.result.past <=> Instant(last.then) < Instant(Reference)
       /\ last.result.unit \notin PlainLabels
          => (last.result.ago <=> Instant(last.then) < Instant(Reference))
       /\ last.result.unit \in PlainLabels => ~last.result.ago
       /\ last.result.unit \in {"just now", "yesterday"}
          => Instant(last.then) < Instant(Reference)
       /\ last.result.unit \in {"now", "tomorrow"}
          => Instant(last.then) >= Instant(Reference)

\* since(t, t) of a datetime t returned "now": then = reference was not
\* taken as past.
C15_Witness ==
    /\ SinceReturned
    /\ IsDatetime(last.then)
    /\ last.now = last.then
    /\ last.result.unit = "now"
    /\ ~last.result.past

-----------------------------------------------------------------------------
\* since returned a label for a timestamped then
TimestampedCall == SinceReturned /\ IsDatetime(last.then)

\* The difference of then and the reference in seconds, without its sign
SecondsApart == Abs(Instant(last.then) - Instant(Reference))

(* C16: for two timestamped arguments less than one minute apart since
   returns "just now" when then is before the reference and "now" when then
   equals it or is after it, so since(t, t) = "now"; from one minute to
   less than one hour apart it returns the number of minutes rounded to the
   nearest minute, written "a minute" when that number is 1. *)
C16_MinuteLabels ==
    TimestampedCall
    => /\ SecondsApart < 60
          => /\ last.result.unit
                  = IF Instant(last.then) < Instant(Reference)
                    THEN "just now" ELSE "now"
             /\ last.result.count = 0 /\ ~last.result.ago
       /\ (SecondsApart >= 60 /\ SecondsApart < 3600)
          => /\ last.result.unit = "minute"
             /\ 2 * Abs(SecondsApart - 60 * last.result.count) <= 60
             /\ last.result.article <=> last.result.count = 1
       /\ last.then = Reference => last.result.unit = "now"

\* since of a then 59 minutes 45 seconds before the reference returned
\* "60 minutes ago".
C16_Witness ==
    /\ TimestampedCall
    /\ Instant(Reference) - Instant(last.then) = 3585
    /\ last.result.unit = "minute"
    /\ last.result.count = 60
    /\ last.result.ago

-----------------------------------------------------------------------------
(* common/dt.py: natural *)

\* The members of _ND in the order of their values 0 .. 10
ND ==
    << "YEAR_BEFORE", "LAST_YEAR", "THIS_YEAR", "LAST_WEEK", "THIS_WEEK",
       "YESTERDAY", "TODAY", "TOMORROW", "NEXT_WEEK", "NEXT_YEAR",
       "YEAR_AFTER" >>

\* The patterns _ND_FORMATS has for a date, by value of _ND, a pattern
\* being the sequence of its words and directives
DatePatterns ==
    << <<"%B", "%Y">>, <<"last", "%B">>, <<"%-d", "%B">>, <<"last", "%A">>,
       <<"%A">>, <<"yesterday">>, <<"today">>, <<"tomorrow">>,
       <<"next", "%A">>, <<"next", "%B">>, <<"%B", "%Y">> >>

\* _ND_FORMATS with every datetime pattern being the date pattern followed
\* by the time of day
TimedFormats ==
    [ i \in 1 .. 11 |-> << DatePatterns[i], DatePatterns[i] \o <<"%H:%M">> >> ]

\* _ND_FORMATS: for each value of _ND the strftime pattern of a date and
\* the one of a datetime
ND_FORMATS ==
    << << <<"%B", "%Y">>, <<"%B", "%Y">> >>,
       << <<"last", "%B">>, <<"last", "%B">> >>,
       << <<"%-d", "%B">>, <<"%-d", "%B", "%H:%M">> >>,
       << <<"last", "%A">>, <<"last", "%A", "%H:%M">> >>,
       << <<"%A">>, <<"%A", "%H:%M">> >>,
       << <<"yesterday">>, <<"yesterday", "%H:%M">> >>,
       << <<"today">>, <<"%H:%M">> >>,
       << <<"tomorrow">>, <<"tomorrow", "%H:%M">> >>,
       << <<"next", "%A">>, <<"next", "%A", "%H:%M">> >>,
       << <<"next", "%B">>, <<"next", "%B">> >>,
       << <<"%B", "%Y">>, <<"%B", "%Y">> >> >>

\* The value of a member of _ND
ValueOf(member) == (CHOOSE i \in 1 .. 11 : ND[i] = member) - 1

\* lo <= then_d < hi with the bounds the other way round: lo < then_d <= hi
WithinClosedAbove(lo, d, hi) == lo < d /\ d <= hi

\* lo <= then_d < hi
Within(lo, d, hi) == lo <= d /\ d < hi

\* The year buckets told by the distance in days instead of the calendar
\* year
YearBucketByDays(then_d, now_d) ==
    IF then_d - now_d < -730 THEN "YEAR_BEFORE"
    ELSE IF then_d - now_d < -365 THEN "LAST_YEAR"
    ELSE IF then_d - now_d > 730 THEN "YEAR_AFTER"
    ELSE IF then_d - now_d > 365 THEN "NEXT_YEAR"
    ELSE "THIS_YEAR"

\* The last five branches of _natural_date: the rest of the year
YearBucket(then_d, now_d) ==
    IF YearOf(then_d) < YearOf(now_d) - 1 THEN "YEAR_BEFORE"
    ELSE IF YearOf(then_d) = YearOf(now_d) - 1 THEN "LAST_YEAR"
    ELSE IF YearOf(then_d) = YearOf(now_d) + 1 THEN "NEXT_YEAR"
    ELSE IF YearOf(then_d) > YearOf(now_d) + 1 THEN "YEAR_AFTER"
    ELSE "THIS_YEAR"

\* _natural_date(then, now): the member of _ND for the dates of then and of
\* now (of the clock when now is None), whatever their kinds.
natural_date(then, now, tz_now) ==
    LET then_d == DateOf(then)
        now_d == DateOf(IF now = NoDate THEN tz_now ELSE now)
        this_week == calendar_delta(now_d, 0, 0, -weekday(now_d.ord)).value
        last_week == calendar_delta(this_week, 0, 0, -7).value
        next_week == calendar_delta(this_week, 0, 0, 7).value
        fortnight == calendar_delta(this_week, 0, 0, 14).value
    IN  IF then_d = now_d THEN "TODAY"
        ELSE IF then_d = calendar_delta(now_d, 0, 0, -1).value
        THEN "YESTERDAY"
        ELSE IF then_d = calendar_delta(now_d, 0, 0, 1).value
        THEN "TOMORROW"
        ELSE IF Within(last_week.ord, then_d.ord, this_week.ord)
        THEN "LAST_WEEK"
        ELSE IF Within(this_week.ord, then_d.ord, next_week.ord)
        THEN "THIS_WEEK"
        ELSE IF Within(next_week.ord, then_d.ord, fortnight.ord)
        THEN "NEXT_WEEK"
        ELSE YearBucket(then_d.ord, now_d.ord)

\* What dt.strftime puts for one word or directive of a pattern: the number
\* of the weekday (%A) or month (%B), the year, the day of the month, the
\* minute of the day (%H:%M, 0 for a date); a word stands for itself.
Rendered(dt, directive) ==
    [directive |-> directive,
     value |-> IF directive = "%A" THEN weekday(dt.ord)
               ELSE IF directive = "%B" THEN MonthOf(dt.ord)
               ELSE IF directive = "%Y" THEN YearOf(dt.ord)
               ELSE IF directive = "%-d" THEN DayOf(dt.ord)
               ELSE IF directive = "%H:%M" THEN dt.sec \div 60
               ELSE 0]

strftime(dt, pattern) ==
    [i \in 1 .. Len(pattern) |-> Rendered(dt, pattern[i])]

\* _ND.format(dt)
Format(member, dt) ==
    LET with_time == IF IsDatetime(dt) THEN 1 ELSE 0
    IN  strftime(dt, ND_FORMATS[ValueOf(member) + 1][with_time + 1])

\* natural(then, now): the member found and the label made of it
natural(then, now, tz_now) ==
    [bucket |-> natural_date(then, now, tz_now),
     label |-> Format(natural_date(then, now, tz_now), then)]

\* The furthest then lies from the reference among the days drawn one by
\* one
MaxNear == 21

\* Distances in days beyond those, from the tables of NaturalTestCase and
\* around one and two years
FarDays == { 120, 121, 245, 246, 364, 365, 366, 367, 485, 486, 610, 611,
             730, 731, 732, 800 }

\* References on each day of the week: Monday 27 April to Sunday 3 May 2020
\* (30 April is the DATE of tests/test_datetime.py), and Monday 28 December
\* 2020 to Sunday 3 January 2021.
NaturalReferenceDays ==
    { toordinal(2020, 4, 27) + i : i \in 0 .. 6 }
    \cup { toordinal(2020, 12, 28) + i : i \in 0 .. 6 }

\* Pairs of a then and a reference, each a date or a datetime, and a then
\* without a reference
NaturalInputs ==
    LET offsets == (-MaxNear .. MaxNear) \cup FarDays
                   \cup { -d : d \in FarDays }
        thens(n) == { Date(n), Datetime(n, TIME), Datetime(n, TIME + 5400) }
        nows(r) == { Date(r), Datetime(r, TIME), NoDate }
    IN  UNION { { <<then, now>> : then \in thens(r + d), now \in nows(r) } :
                  r \in NaturalReferenceDays, d \in offsets }

\* natural(then, now)
CallNatural ==
    /\ last.op = "value"
    /\ last' = [last EXCEPT !.op = "natural",
                            !.result = natural(last.then, last.now, TzNow)]
    /\ UNCHANGED <<clock, items, records, req>>

InitNatural ==
    /\ clock = 0
    /\ items = {}
    /\ records = {}
    /\ \E pair \in NaturalInputs :
         last = [op |-> "value", then |-> pair[1], now |-> pair[2],
                 result |-> [bucket |-> "", label |-> <<>>]]
    /\ req = [w \in {} |-> 0]

NextNatural == CallNatural

SpecNatural == InitNatural /\ [][NextNatural]_vars

-----------------------------------------------------------------------------
\* natural was called; the days of then and of its reference (the clock
\* when no reference was given)
NaturalCall == last.op = "natural"
ThenDay == last.then.ord
NowDay == IF last.now = NoDate THEN TzNow.ord ELSE last.now.ord

\* The Monday of the week the reference day lies in
Monday == CHOOSE m \in NowDay - 6 .. NowDay : weekday(m) = 0

\* then is the reference day or the day before or after it
OnOrNextToNowDay == ThenDay \in NowDay - 1 .. NowDay + 1

(* C17: the week buckets of natural are half-open and start on the Monday M
   of the week of the reference date: a date that is neither the reference
   date nor next to it is LAST_WEEK iff M - 7 <= date < M, THIS_WEEK iff
   M <= date < M + 7 and NEXT_WEEK iff M + 7 <= date < M + 14; so the date
   7 days after the reference is NEXT_WEEK, whatever the reference. *)
C17_WeekBuckets ==
    NaturalCall
    => /\ ~OnOrNextToNowDay
          => /\ last.result.bucket = "LAST_WEEK"
                  <=> (Monday - 7 <= ThenDay /\ ThenDay < Monday)
             /\ last.result.bucket = "THIS_WEEK"
                  <=> (Monday <= ThenDay /\ ThenDay < Monday + 7)
             /\ last.result.bucket = "NEXT_WEEK"
                  <=> (Monday + 7 <= ThenDay /\ ThenDay < Monday + 14)
       /\ ThenDay = NowDay + 7 => last.result.bucket = "NEXT_WEEK"

\* natural of the Monday 7 days after a reference that is a Monday: the
\* first day of the next week, classified NEXT_WEEK.
C17_Witness ==
    /\ NaturalCall
    /\ weekday(NowDay) = 0
    /\ ThenDay = NowDay + 7
    /\ last.result.bucket = "NEXT_WEEK"

\* The bucket is one of the day and week buckets
DayOrWeekBucket ==
    last.result.bucket \in { "TODAY", "YESTERDAY", "TOMORROW", "LAST_WEEK",
                             "THIS_WEEK", "NEXT_WEEK" }

\* The calendar year of then minus that of the reference
YearDifference == YearOf(ThenDay) - YearOf(NowDay)

(* C18: natural tries TODAY, then YESTERDAY and TOMORROW, then the week
   buckets, then the year buckets: a date outside the day and week buckets
   is classified by the difference of calendar years alone (below -1
   YEAR_BEFORE, -1 LAST_YEAR, 0 THIS_YEAR, +1 NEXT_YEAR, above +1
   YEAR_AFTER), and a date inside a day or week bucket keeps it even when
   it lies in another calendar year than the reference. *)
C18_BucketOrder ==
    NaturalCall
    => /\ ThenDay = NowDay => last.result.bucket = "TODAY"
       /\ ThenDay = NowDay - 1 => last.result.bucket = "YESTERDAY"
       /\ ThenDay = NowDay + 1 => last.result.bucket = "TOMORROW"
       /\ DayOrWeekBucket
            <=> (Monday - 7 <= ThenDay /\ ThenDay < Monday + 14)
                \/ OnOrNextToNowDay
       /\ ~DayOrWeekBucket
          => last.result.bucket
               = IF YearDifference < -1 THEN "YEAR_BEFORE"
                 ELSE IF YearDifference = -1 THEN "LAST_YEAR"
                 ELSE IF YearDifference = 0 THEN "THIS_YEAR"
                 ELSE IF YearDifference = 1 THEN "NEXT_YEAR"
                 ELSE "YEAR_AFTER"

\* natural of a day of December 2020 with a reference in January 2021, in
\* the same week: a week bucket, although the years differ.
C18_Witness ==
    /\ NaturalCall
    /\ YearDifference = -1
    /\ last.result.bucket = "THIS_WEEK"

-----------------------------------------------------------------------------
\* The pair of patterns _ND_FORMATS has for the bucket found
PatternsUsed == ND_FORMATS[ValueOf(last.result.bucket) + 1]

\* The label shows a time of day
CarriesTime ==
    \E i \in DOMAIN last.result.label :
        last.result.label[i].directive = "%H:%M"

\* The buckets whose two patterns are the same
YearOnlyBuckets == {"YEAR_BEFORE", "LAST_YEAR", "NEXT_YEAR", "YEAR_AFTER"}

(* C19 as stated: for every bucket of natural the pattern of a timestamped
   input is the pattern of a date-only input followed by the time of day,
   so the label of a timestamped input shows its time of day in every
   bucket, LAST_YEAR, NEXT_YEAR, YEAR_BEFORE and YEAR_AFTER included, and
   the label of a date-only input never does. *)
C19_TimeInEveryBucket ==
    NaturalCall
    => /\ PatternsUsed[2] = PatternsUsed[1] \o <<"%H:%M">>
       /\ CarriesTime <=> IsDatetime(last.then)

(* C19: the pattern of a timestamped input is the date-only pattern
   followed by the time of day for THIS_YEAR, LAST_WEEK, THIS_WEEK,
   YESTERDAY, TOMORROW and NEXT_WEEK; for TODAY it is the time of day alone,
   in place of "today"; for YEAR_BEFORE, LAST_YEAR, NEXT_YEAR and YEAR_AFTER
   it is the date-only pattern itself.  So the label of a timestamped input
   shows its time of day exactly in the buckets other than those four, and
   the label of a date-only input never does. *)
C19_TimeUnlessYearBucket ==
    NaturalCall
    => /\ PatternsUsed[1] = DatePatterns[ValueOf(last.result.bucket) + 1]
       /\ PatternsUsed[2]
            = IF last.result.bucket \in YearOnlyBuckets
              THEN PatternsUsed[1]
              ELSE IF last.result.bucket = "TODAY" THEN <<"%H:%M">>
              ELSE PatternsUsed[1] \o <<"%H:%M">>
       /\ CarriesTime
            <=> ( /\ IsDatetime(last.then)
                  /\ last.result.bucket \notin YearOnlyBuckets )
       /\ \A i \in DOMAIN last.result.label :
            last.result.label[i].directive = "%H:%M"
            => /\ i = Len(last.result.label)
               /\ last.result.label[i].value = last.then.sec \div 60

\* natural of a timestamped then of the year before the reference returned
\* "last <month>", without the time of day.
C19_Witness ==
    /\ NaturalCall
    /\ IsDatetime(last.then)
    /\ last.result.bucket = "LAST_YEAR"
    /\ Len(last.result.label) = 2
    /\ ~CarriesTime

-----------------------------------------------------------------------------
(* models.py: Record.print_quantity *)

\* Units as print_quantity reads them: symbol, plural and code ("" for a
\* plural or code that is None or blank), and convert = 10^exp, a power of
\* ten so that quantity / convert is an exact Decimal.
PrintUnits ==
    { [symbol |-> f[1], plural |-> f[2], code |-> f[3], exp |-> e] :
        f \in { <<"kilogram", "kilograms", "kg">>,
                <<"item", "items", "">>,
                <<"tin", "", "">>,
                <<"none", "", "">>,
                <<"none", "things", "">> },
        e \in {-3, 0, 3} }

\* Record.quantity of the records printed, in thousandths: around 0.001,
\* 1 and 1000 (which come out around 1 in the three units) and others.
PrintQuantities ==
    { 0, 1, 2, 5, 994, 995, 999, 1000, 1001, 1004, 1005, 1006, 1010, 1500,
      2000, 999000, 999499, 999500, 1000000, 1000400, 1000500, 1001000,
      2000000 }

\* self.quantity / self.item.unit.convert for a quantity in thousandths
convert_quantity(quantity, unit) ==
    Finite(1, quantity, -DP_QUANTITY - unit.exp)

\* quantity != 1 negated: the finite Decimal is the number 1
IsOne(d) == d.sign = 1 /\ d.exp <= 0 /\ d.coeff = Pow10(-d.exp)

\* Record.print_quantity(): the number printed by %.12g (rounded, as a
\* Decimal) and the suffix after it: a text of the unit, with or without an
\* "s" added, or nothing.
print_quantity(record_quantity, unit) ==
    LET quantity == convert_quantity(record_quantity, unit)
        rounded == round_quantity(quantity).value
    IN  IF unit.code # ""
        THEN [number |-> rounded, suffix |-> unit.code, s |-> FALSE]
        ELSE IF ~IsOne(quantity) /\ unit.plural # ""
        THEN [number |-> rounded, suffix |-> unit.plural, s |-> FALSE]
        ELSE IF ~IsOne(quantity) /\ unit.symbol # "none"
        THEN [number |-> rounded, suffix |-> unit.symbol, s |-> TRUE]
        ELSE IF unit.symbol # "none"
        THEN [number |-> rounded, suffix |-> unit.symbol, s |-> FALSE]
        ELSE [number |-> rounded, suffix |-> "", s |-> FALSE]

\* record.print_quantity()
CallPrintQuantity ==
    /\ last.op = "record"
    /\ last' = [last EXCEPT !.op = "print_quantity",
                            !.result = print_quantity(last.quantity,
                                                      last.unit)]
    /\ UNCHANGED <<clock, items, records, req>>

\* record.format_quantity()
CallRecordFormatQuantity ==
    /\ last.op = "record"
    /\ last' = [last EXCEPT
                  !.op = "format_quantity",
                  !.result = [number |-> format_quantity(
                                           convert_quantity(last.quantity,
                                                            last.unit),
                                           FALSE).value,
                              suffix |-> "", s |-> FALSE]]
    /\ UNCHANGED <<clock, items, records, req>>

InitPrint ==
    /\ clock = 0
    /\ items = {}
    /\ records = {}
    /\ \E quantity \in PrintQuantities, unit \in PrintUnits :
         last = [op |-> "record", quantity |-> quantity, unit |-> unit,
                 result |-> [number |-> NaN, suffix |-> "", s |-> FALSE]]
    /\ req = [w \in {} |-> 0]

NextPrint ==
    \/ CallPrintQuantity
    \/ CallRecordFormatQuantity

SpecPrint == InitPrint /\ [][NextPrint]_vars

-----------------------------------------------------------------------------
\* The number print_quantity prints is 1: %.12g writes it as "1"
RenderedAsOne == IsOne(last.result.number)

(* C20: print_quantity takes the suffix by strict priority: the code if
   there is one; else the plural if the quantity as rendered (rounded) is
   not 1 and there is a plural; else the symbol with "s" if the rendered
   quantity is not 1 and the symbol is not "none"; else the symbol if it is
   not "none"; else no suffix.  A quantity rendered as "1" always takes the
   singular form. *)
C20_SuffixPriority ==
    last.op = "print_quantity"
    => LET unit == last.unit
       IN  /\ last.result.suffix
                = IF unit.code # "" THEN unit.code
                  ELSE IF ~RenderedAsOne /\ unit.plural # "" THEN unit.plural
                  ELSE IF unit.symbol # "none" THEN unit.symbol
                  ELSE ""
           /\ last.result.s
                <=> /\ unit.code = ""
                    /\ ~RenderedAsOne
                    /\ unit.plural = ""
                    /\ unit.symbol # "none"

-----------------------------------------------------------------------------
(* Item creation and edits with names that differ and slugs that do not *)

NameAleCapital == <<"A", "l", "e">>
NameALe == <<"a", " ", "l", "e">>
NameAHyphenLe == <<"a", "-", "l", "e">>

\* "ale" and "Ale" are one name on a CITextField; "a le" and "a-le" are two
\* names with the slug "a-le" (test_add_existing_ident: "tinned  tomatoes").
SlugNameInputs == {NameAle, NameAleCapital, NameALe, NameAHyphenLe}

\* The units the item requests name here: kg and g
MassUnitInputs == {201, 202}

\* An empty database
InitNames ==
    /\ clock = 0
    /\ items = {}
    /\ records = {}
    /\ last = NoRequest
    /\ req = [w \in {} |-> 0]

\* AddItem.post and GetItem.post with valid units and no minimum
NextNames ==
    \/ \E user \in Users, name \in SlugNameInputs, unit \in MassUnitInputs :
          AddItem(user, name, unit, Blank, Blank)
    \/ \E user \in Users, id \in ItemIds, name \in SlugNameInputs,
          unit \in MassUnitInputs :
          EditItem(user, id, name, unit, Blank)

SpecNames == InitNames /\ [][NextNames]_vars

-----------------------------------------------------------------------------
\* Another item of the user than item id has the name, or a name of the
\* same slug
Collides(table, user, name, id) ==
    \E i \in table :
        /\ i.user = user
        /\ i.id # id
        /\ SameName(i.name, name) \/ Slugify(i.name) = Slugify(name)

\* Every identifier is the slug of the name, and no two items of one owner
\* share a name or an identifier
IdentsAreUniqueSlugs(table) ==
    /\ \A i \in table : i.ident = Slugify(i.name)
    /\ \A i, j \in table :
         (i.id # j.id /\ i.user = j.user)
         => ~SameName(i.name, j.name) /\ i.ident # j.ident

(* C21: after any sequence of item creations and edits every stored item's
   identifier is the slug of its current name, and no two items of the same
   owner share a name or an identifier: a creation or edit whose name or
   slug is that of another item of the same owner is rejected and leaves
   all items as they were, while the name of an item of another owner is
   accepted. *)
C21_IdentUniquePerOwner ==
    [][ /\ IdentsAreUniqueSlugs(items')
        /\ \A user \in Users, name \in SlugNameInputs, unit \in MassUnitInputs :
             (last'.op = "AddItem" /\ AddItem(user, name, unit, Blank, Blank))
             => IF Collides(items, user, name, 0)
                THEN last'.outcome = "invalid" /\ items' = items
                ELSE /\ last'.outcome = "saved"
                     /\ \E i \in items' \ items :
                          /\ i.user = user /\ i.name = name
                          /\ items' = items \cup {i}
        /\ \A user \in Users, id \in ItemIds, name \in SlugNameInputs,
              unit \in MassUnitInputs :
             ( /\ last'.op = "EditItem" /\ last'.item = id
               /\ EditItem(user, id, name, unit, Blank) )
             => IF Collides(items, user, name, id)
                THEN last'.outcome = "invalid" /\ items' = items
                ELSE /\ last'.outcome = "saved"
                     /\ \E i \in items' :
                          i.id = id /\ i.name = name
                          /\ i.ident = Slugify(name) ]_vars

\* An edit was rejected for its name: the owner has a second item, of that
\* name or slug.
C21_Witness ==
    /\ last.op = "EditItem"
    /\ last.outcome = "invalid"
    /\ \E i, j \in items :
         i.id # j.id /\ i.user = last.user /\ j.user = last.user

-----------------------------------------------------------------------------
(* Items with minimums, their records, and all four kinds of submission *)

StockNameInputs == {NameRice, NameAle}

\* The one owner of the items here
StockUsers == {"john"}

\* No minimum, 1500 (1500 g is 1.5 kg) and -1, in thousandths
MinimumInputs == {Blank, Num(1500000), Num(-1000)}

\* AddItem.post, GetItem.post, AddRecord.post and Update.post
NextStock ==
    \/ \E user \in StockUsers, name \in StockNameInputs, unit \in MassUnitInputs,
          minimum \in MinimumInputs, quantity \in QuantityInputs :
          AddItem(user, name, unit, minimum, quantity)
    \/ \E user \in StockUsers, id \in ItemIds, name \in StockNameInputs,
          unit \in MassUnitInputs, minimum \in MinimumInputs :
          EditItem(user, id, name, unit, minimum)
    \/ \E user \in StockUsers, id \in ItemIds, quantity \in QuantityInputs,
          unit \in MassUnitInputs, note \in NoteInputs :
          AddRecord(user, id, quantity, unit, note)
    \/ \E user \in StockUsers, note \in NoteInputs :
          \E data \in UpdateData(user) : Update(user, data, note)

SpecStock == InitItemRequests /\ [][NextStock]_vars

-----------------------------------------------------------------------------
\* The minimum m entered in unit U, in base units: round(m * U.convert, 3),
\* and 0 for none
MinimumInBase(minimum, unit) ==
    IF minimum = Blank THEN 0 ELSE ToBase(minimum[1], unit)

\* After an edit with minimum m in unit U the stored minimum is
\* round(m * U.convert, 3)
EditStoresMinimumInBase ==
    [][ \A user \in StockUsers, id \in ItemIds, name \in StockNameInputs,
           unit \in MassUnitInputs, minimum \in MinimumInputs :
          ( /\ last'.op = "EditItem" /\ last'.outcome = "saved"
            /\ last'.item = id /\ last'.unit = unit
            /\ EditItem(user, id, name, unit, minimum) )
          => \E i \in items' :
               i.id = id /\ i.minimum = MinimumInBase(minimum, unit) ]_vars

(* C22: an item's minimum is always stored in base units: after creating an
   item, and after editing one, with minimum m in unit U the stored minimum
   is round(m * U.convert, 3), and 0 for a blank one, for every unit, those
   whose factor is not 1 included. *)
C22_MinimumInBaseUnits ==
    [][ /\ \A user \in StockUsers, name \in StockNameInputs, unit \in MassUnitInputs,
              minimum \in MinimumInputs, quantity \in QuantityInputs :
             ( /\ last'.op = "AddItem" /\ last'.outcome = "saved"
               /\ last'.unit = unit
               /\ AddItem(user, name, unit, minimum, quantity) )
             => \E i \in items' \ items :
                  i.minimum = MinimumInBase(minimum, unit)
        /\ \A user \in StockUsers, id \in ItemIds, name \in StockNameInputs,
              unit \in MassUnitInputs, minimum \in MinimumInputs :
             ( /\ last'.op = "EditItem" /\ last'.outcome = "saved"
               /\ last'.item = id /\ last'.unit = unit
               /\ EditItem(user, id, name, unit, minimum) )
             => \E i \in items' :
                  i.id = id /\ i.minimum = MinimumInBase(minimum, unit) ]_vars

-----------------------------------------------------------------------------
\* The rows of a table other than the one of item id
OtherItems(table, id) == { i \in table : i.id # id }

(* C23: editing an item is a pure metadata update: for every edit, accepted
   or rejected, the records are identical before and after, the item's own
   records included, and no other item is changed; the edited item keeps
   its identity and owner, and a rejected edit leaves it as it was. *)
C23_EditIsMetadataOnly ==
    [][ last'.op = "EditItem"
        => /\ records' = records
           /\ OtherItems(items', last'.item) = OtherItems(items, last'.item)
           /\ \E i \in items, j \in items' :
                /\ i.id = last'.item /\ j.id = last'.item
                /\ j.user = i.user
                /\ last'.outcome # "saved" => j = i ]_vars

\* An accepted edit gave a new minimum to an item with records, next to
\* another item of the owner.
C23_Witness ==
    /\ last.op = "EditItem"
    /\ last.outcome = "saved"
    /\ \E i, j \in items :
         /\ i.id = last.item /\ j.id # i.id /\ j.user = i.user
         /\ i.minimum # 0
         /\ RecordsOf(records, i.id) # {}
         /\ RecordsOf(records, j.id) # {}

-----------------------------------------------------------------------------
(* C24: an item is mutated when a new record changes the preferred unit:
   after a successful record submission that names a unit of the item's
   measure other than the item's current preferred unit, the item's
   preferred unit is the unit named. *)
C24_RecordSetsPreferredUnit ==
    [][ \A i \in items :
          ( /\ last'.op = "AddRecord"
            /\ last'.outcome = "saved"
            /\ last'.item = i.id
            /\ last'.unit # i.unit
            /\ last'.unit \in UnitsOfMeasure(Unit(i.unit).measure) )
          => \E j \in items' : j.id = i.id /\ j.unit = last'.unit ]_vars

-----------------------------------------------------------------------------
\* The two arguments are both dates, or both datetimes
SameKindCall ==
    /\ last.op = "since"
    /\ last.now # NoDate
    /\ IsDatetime(last.then) = IsDatetime(last.now)

(* C25: since is total on arguments of one kind: for every pair of dates,
   and every pair of datetimes, it returns a label and never raises, for
   a 29 February and for dates a month or more apart too. *)
C25_SinceTotal == SameKindCall => last.result.raises = ""

-----------------------------------------------------------------------------
\* Every stored quantity and every stored minimum is at least 0
NonNegativeStock(itemTable, recordTable) ==
    /\ \A r \in recordTable : r.quantity >= 0
    /\ \A i \in itemTable : i.minimum >= 0

\* A number below 0 was entered
Negative(field) == field # Blank /\ field[1] < 0

\* The request did not save, and the tables are as they were
RejectedStoringNothing ==
    /\ last'.outcome # "saved"
    /\ items' = items
    /\ records' = records

(* C26: after any sequence of item creations, edits, single record
   submissions and bulk updates every stored record quantity and every
   stored minimum is at least 0; a submission with a negative quantity or
   minimum is rejected and stores nothing. *)
C26_NeverNegative ==
    [][ /\ NonNegativeStock(items', records')
        /\ last'.op = "AddItem"
           => \A user \in StockUsers, name \in StockNameInputs,
                 unit \in MassUnitInputs, minimum \in MinimumInputs,
                 quantity \in QuantityInputs :
                ( /\ Negative(minimum) \/ Negative(quantity)
                  /\ AddItem(user, name, unit, minimum, quantity) )
                => RejectedStoringNothing
        /\ last'.op = "EditItem"
           => \A user \in StockUsers, id \in ItemIds,
                 name \in StockNameInputs, unit \in MassUnitInputs,
                 minimum \in MinimumInputs :
                ( /\ Negative(minimum)
                  /\ EditItem(user, id, name, unit, minimum) )
                => RejectedStoringNothing
        /\ last'.op = "AddRecord"
           => \A user \in StockUsers, id \in ItemIds,
                 quantity \in QuantityInputs, unit \in MassUnitInputs,
                 note \in NoteInputs :
                ( /\ Negative(quantity)
                  /\ AddRecord(user, id, quantity, unit, note) )
                => RejectedStoringNothing
        /\ last'.op = "Update"
           => \A user \in StockUsers, note \in NoteInputs :
                \A data \in UpdateData(user) :
                  ( /\ \E i \in ItemsOf(user) : Negative(data[i.id])
                    /\ Update(user, data, note) )
                  => RejectedStoringNothing ]_vars

\* A bulk update with a negative quantity was turned down while two items
\* have records and a minimum is above 0.
C26_Witness ==
    /\ last.op = "Update"
    /\ last.outcome = "invalid"
    /\ \E i \in items : i.minimum > 0
    /\ \E r, q \in records : r.item # q.item /\ r.quantity > 0
    /\ NonNegativeStock(items, records)

-----------------------------------------------------------------------------
(* Submissions one after the other over two minutes *)

MaxChainClock == 120

\* Half a minute passes
ChainTick ==
    /\ clock + 30 <= MaxChainClock
    /\ clock' = clock + 30
    /\ UNCHANGED <<items, records, last, req>>

\* The units of the two items of the test data: g and l
ChainUnitInputs == {202, 301}

\* The note sent with the submissions; the record of the test data has
\* the note "first"
ChainNoteInputs == {"m"}

\* AddRecord.post and Update.post of the items' owner as time passes
NextChain ==
    \/ ChainTick
    \/ \E id \in ItemIds, quantity \in QuantityInputs,
          unit \in ChainUnitInputs, note \in ChainNoteInputs :
          AddRecord("john", id, quantity, unit, note)
    \/ \E note \in ChainNoteInputs :
          \E data \in UpdateData("john") : Update("john", data, note)

SpecChain == Init /\ [][NextChain]_vars

-----------------------------------------------------------------------------
\* Any two records of one item are at least MIN_DOUBLE_POST apart: so are
\* any two consecutive ones
MinuteApart(recs) ==
    \A r, s \in recs :
        (r.id # s.id /\ r.item = s.item /\ r.added <= s.added)
        => s.added - r.added >= MIN_DOUBLE_POST

\* The accepted submission for item id came less than MIN_DOUBLE_POST after
\* the item's latest record
WithinWindow(id) ==
    /\ clock' = clock
    /\ last'.outcome = "saved"
    /\ id \in last'.merged \cup last'.inserted
    /\ \E r \in RecordsOf(records, id) : clock - r.added < MIN_DOUBLE_POST

(* C27: from a history whose consecutive records are at least one minute
   apart, and with a clock that does not go back, after any sequence of
   single and bulk submissions made one after the other the timestamps of
   any two consecutive records of one item differ by at least one minute;
   so a chain of submissions each less than a minute after the one before
   stays a single record, whose timestamp is that of the last submission. *)
C27_RecordsMinuteApart ==
    [][ /\ MinuteApart(records) => MinuteApart(records')
        /\ \A id \in ItemIds :
             WithinWindow(id)
             => /\ Cardinality(RecordsOf(records', id))
                     = Cardinality(RecordsOf(records, id))
                /\ \E r \in LatestRecords(records', id) :
                     /\ r.added = clock
                     /\ r.id \in { s.id : s \in LatestRecords(records, id) } ]_vars

\* Submissions at 0:30, 1:00 and 1:30 after the record of 0:00 left that
\* one record, timed 1:30.
C27_Witness ==
    /\ last.merged # {}
    /\ \E r \in records :
         /\ r.id = 1
         /\ r.added = 3 * 30
         /\ RecordsOf(records, r.item) = {r}
         /\ r.item \in last.merged

-----------------------------------------------------------------------------
\* The latest record of item id was moved to the time of the submission:
\* it is the same row of the same item with the same note, and the item's
\* other records are as they were
MergedIntoLatest(id) ==
    \E r \in RecordsOf(records, id), q \in RecordsOf(records', id) :
        /\ r \in LatestRecords(records, id)
        /\ q.id = r.id
        /\ q.item = r.item
        /\ q.note = r.note
        /\ q.added = clock
        /\ RecordsOf(records', id) \ {q} = RecordsOf(records, id) \ {r}

\* A record of item id was added with the note of the submission
InsertedWithNote(id, note) ==
    \E q \in RecordsOf(records', id) :
        /\ q.id \notin { r.id : r \in records }
        /\ q.note = note
        /\ q.added = clock
        /\ RecordsOf(records', id) = RecordsOf(records, id) \cup {q}

\* Each item of the submission was merged or inserted as described
MergeKeepsNote(note) ==
    /\ \A id \in last'.merged : MergedIntoLatest(id)
    /\ \A id \in last'.inserted : InsertedWithNote(id, note)

(* C28: when a submission is merged into the latest record, by the single
   or by the bulk path, only that record's quantity and timestamp change:
   its identity, its item and its note are left as they were, so the note
   sent with the merged submission is discarded; a submission that is not
   merged stores its own note on the new record. *)
C28_MergeKeepsNote ==
    [][ /\ last'.op = "AddRecord"
           => \A id \in ItemIds, quantity \in QuantityInputs,
                 unit \in ChainUnitInputs, note \in ChainNoteInputs :
                AddRecord("john", id, quantity, unit, note)
                => MergeKeepsNote(note)
        /\ (last'.op = "Update" /\ last'.outcome = "saved")
           => \A note \in ChainNoteInputs :
                \A data \in UpdateData("john") :
                  ( /\ DOMAIN UpdateFormClean(ItemsOf("john"), data)
                         = last'.merged \cup last'.inserted
                    /\ Update("john", data, note) )
                  => MergeKeepsNote(note) ]_vars

\* A bulk submission was merged into the record noted "first" and has
\* added a record with its own note to the other item.
C28_Witness ==
    /\ last.op = "Update"
    /\ last.merged # {}
    /\ last.inserted # {}
    /\ \E r, q \in records :
         /\ r.item \in last.merged /\ r.note = "first" /\ r.added = clock
         /\ q.item \in last.inserted /\ q.note = "m" /\ q.added = clock
         /\ r.added > 0

-----------------------------------------------------------------------------
(* The time left of a large stock that fell to almost nothing within
   minutes: the rate is kept as its two sums, which the thousandths a day of
   Average cannot hold in the integers of the model checker. *)

\* The column average for the item as <<sum of drops, sum of seconds>>,
\* standing for drops / seconds * 86400 a day: None when the item has no
\* row or no row with a lead, and nullif(..., 0) when no quantity fell.
AverageSums(recs, id) ==
    LET rows == RecordsOf(recs, id)
    IN  IF rows = {} THEN None
        ELSE IF \A r \in rows : Lead(recs, r) = NoRecord THEN None
        ELSE NullIf(<<SumDrops(recs, rows), SumSeconds(recs, rows)>>)

\* timedelta(days=float(quantity / average)) in microseconds: a timedelta
\* is a whole number of microseconds, the nearest to the days given, the
\* even one of two equally near.
TimedeltaMicroseconds(quantity, average) ==
    IF average[1] > 0
    THEN RoundHalfEven(quantity * average[2] * 1000000, average[1])
    ELSE -RoundHalfEven(quantity * average[2] * 1000000, -average[1])

\* Item.expected_end() as the microseconds it adds to latest_record.added
ExpectedEndDelay(latest, average) ==
    IF latest # NoRecord /\ latest.quantity # 0 /\ average # None
    THEN [kind |-> "datetime", added |-> latest.added,
          microseconds |-> TimedeltaMicroseconds(latest.quantity, average)]
    ELSE [kind |-> "None", added |-> 0, microseconds |-> 0]

\* find_average_use((item,))
FindAverageSums(id) ==
    /\ \E i \in items : i.id = id
    /\ last.op = "none"
    /\ last' = [op |-> "find_average_use", item |-> id,
                average |-> AverageSums(records, id),
                end |-> [kind |-> "", added |-> 0, microseconds |-> 0]]
    /\ UNCHANGED <<clock, items, records, req>>

\* item.expected_end()
CallExpectedEndDelay(id) ==
    /\ last.op = "find_average_use" /\ last.item = id
    /\ \E latest \in LatestRecords(records, id) :
         last' = [last EXCEPT !.op = "expected_end",
                              !.end = ExpectedEndDelay(latest, last.average)]
    /\ UNCHANGED <<clock, items, records, req>>

\* Times of records, in seconds: a minute apart
DelayTimes == {0, 60, 120}

\* Quantities in stock, in thousandths: none, 0.002, 40 000 and 200 000
StockQuantities == {0, 2, 40000000, 200000000}

\* Quantities left at the latest record, in thousandths
LeftQuantities == {0, 1, 2}

\* The histories of item 1: at most MaxRecords records a minute or two
\* apart, the latest with almost nothing left.
DelayHistories ==
    UNION { { { [id |-> k, item |-> 1, quantity |-> q[k], added |-> t[k],
                 note |-> ""] : k \in 1..n } :
                q \in { f \in [1..n -> StockQuantities \cup LeftQuantities] :
                          \A k \in 1..n :
                            f[k] \in IF k = n THEN LeftQuantities
                                             ELSE StockQuantities },
                t \in { f \in [1..n -> DelayTimes] :
                          \A a \in 1..n, b \in 1..n : a < b => f[a] < f[b] } } :
            n \in 0..MaxRecords }

InitDelay ==
    /\ clock = 0
    /\ items = { i \in InitItems : i.id = 1 }
    /\ records \in DelayHistories
    /\ last = NoRequest
    /\ req = [w \in {} |-> 0]

NextDelay ==
    \/ \E id \in ItemIds : FindAverageSums(id)
    \/ \E id \in ItemIds : CallExpectedEndDelay(id)

SpecDelay == InitDelay /\ [][NextDelay]_vars

-----------------------------------------------------------------------------
\* The rate is a number above 0 whenever it is a number
RatePositive ==
    (HasAverage /\ last.average # None)
    => last.average[1] > 0 /\ last.average[2] > 0

\* expected_end() has returned a datetime
HasExpectedEnd == last.op = "expected_end" /\ last.end.kind = "datetime"

(* C29 as stated: whenever the consumption rate is defined it is strictly
   positive, and therefore whenever expected_end is defined it is strictly
   later than the latest record's timestamp. *)
C29_EndStrictlyLater ==
    /\ RatePositive
    /\ HasExpectedEnd => last.end.microseconds > 0

(* C29: whenever the consumption rate is defined it is strictly positive,
   and therefore whenever expected_end is defined it is not earlier than the
   latest record's timestamp: it is strictly later unless the time left is
   half a microsecond or less, which the timedelta rounds to none, and then
   it is that timestamp. *)
C29_EndNotEarlier ==
    /\ RatePositive
    /\ HasExpectedEnd
       => /\ last.end.microseconds >= 0
          /\ last.end.microseconds = 0
             => LET n == Count(last.item)
                IN  2 * Nth(last.item, n).quantity * last.average[2] * 1000000
                      <= last.average[1]

\* 0.001 is left a minute after 200 000: the end expected is the time of
\* the latest record.
C29_Witness ==
    /\ HasExpectedEnd
    /\ last.end.microseconds = 0
    /\ Count(last.item) = 2
    /\ Nth(last.item, 1).quantity = 200000000
    /\ Nth(last.item, 2).quantity = 1
    /\ last.average[2] = 60

-----------------------------------------------------------------------------
(* since on a pair and then on the same pair the other way round *)

\* since(now, then) after since(then, now), for two different dates or two
\* different datetimes
CallSinceSwapped ==
    /\ last.op = "since"
    /\ last.now # NoDate
    /\ IsDatetime(last.then) = IsDatetime(last.now)
    /\ Instant(last.then) # Instant(last.now)
    /\ last' = [op |-> "swapped", then |-> last.now, now |-> last.then,
                result |-> since(last.now, last.then, TzNow)]
    /\ UNCHANGED <<clock, items, records, req>>

NextSwap == CallSince \/ CallSinceSwapped

SpecSwap == InitSince /\ [][NextSwap]_vars

-----------------------------------------------------------------------------
\* The bucket of a label: its unit, "now" for both "just now" and "now",
\* and "next day" for both "yesterday" and "tomorrow"
Bucket(result) ==
    IF result.unit \in {"just now", "now"} THEN "now"
    ELSE IF result.unit \in {"yesterday", "tomorrow"} THEN "next day"
    ELSE result.unit

\* The label says the past: "just now", "yesterday", or " ago" at the end
SaysPast(result) == result.unit \in {"just now", "yesterday"} \/ result.ago

\* The label says the future: "now", "tomorrow", or a count with no " ago"
SaysFuture(result) ==
    /\ result.unit \notin {"just now", "yesterday", "today"}
    /\ ~result.ago

\* Two results of the same bucket and count, one saying the past and one
\* the future; or the same exception twice
Mirrored(earlierFirst, laterFirst) ==
    IF earlierFirst.raises # "" \/ laterFirst.raises # ""
    THEN earlierFirst.raises = laterFirst.raises
    ELSE /\ Bucket(earlierFirst) = Bucket(laterFirst)
         /\ earlierFirst.count = laterFirst.count
         /\ earlierFirst.article = laterFirst.article
         /\ SaysPast(earlierFirst)
         /\ SaysFuture(laterFirst)

(* C30: since is symmetric under swapping its arguments: for different a < b
   of one kind, since(a, b) and since(b, a) select the same bucket and
   count and differ in the direction only (" ago" or none, yesterday or
   tomorrow, just now or now).  This is not the same as negating an offset
   from a fixed reference: 30 days before 30 April is "4 weeks ago" while
   30 days after it is "a month". *)
C30_SwapSymmetry ==
    [][ /\ last'.op = "swapped"
           => IF Instant(last.then) < Instant(last.now)
              THEN Mirrored(last.result, last'.result)
              ELSE Mirrored(last'.result, last.result)
        /\ ( /\ last'.op = "since"
             /\ last'.now = Date(toordinal(2020, 4, 30)) )
           => /\ last'.then = Date(toordinal(2020, 4, 30) - 30)
                 => last'.result = Counted("week", 4, TRUE)
              /\ last'.then = Date(toordinal(2020, 4, 30) + 30)
                 => last'.result = Counted("month", 1, FALSE) ]_vars

\* since(30 April, 31 March), after since(31 March, 30 April), is "4 weeks".
C30_Witness ==
    /\ last.op = "swapped"
    /\ last.then = Date(toordinal(2020, 4, 30))
    /\ last.now = Date(toordinal(2020, 3, 31))
    /\ last.result = Counted("week", 4, FALSE)

====
